---- MODULE Spec2Model ----
(***************************************************************************)
(* A model of rippled_binary_codec: the serialization of an XRP Ledger     *)
(* transaction (a JSON object) to its canonical binary form.               *)
(*                                                                         *)
(* The library is a set of pure functions over a read-only catalog.  Each  *)
(* function is an operator here, computed as the Rust code computes it;    *)
(* each public entry point is an action that draws its input from a        *)
(* bounded set and records the call and its result in the state.           *)
(*                                                                         *)
(* Values.                                                                 *)
(*   Option<T>   [tag |-> "Some", v |-> x]  /  [tag |-> "None", v |-> <<>>]*)
(*               a Rust panic unwinds through every caller and is the      *)
(*               third outcome [tag |-> "Panic", v |-> <<>>].              *)
(*   Vec<u8>     a sequence of numbers 0..255.                             *)
(*   String      a sequence of one-character strings (a field name, which  *)
(*               is only ever compared and looked up, is a TLA+ string).   *)
(*   serde_json::Value                                                     *)
(*               [t |-> "str", s |-> chars]                                *)
(*               [t |-> "num", kind |-> "PosInt" | "NegInt" | "Float",     *)
(*                n |-> the magnitude, a u64]                              *)
(*               [t |-> "arr", a |-> sequence of values]                   *)
(*               [t |-> "obj", o |-> sequence of <<key, value>>, the keys  *)
(*                distinct, in the order Map::keys() yields them]          *)
(*               [t |-> "null"]                                            *)
(*   usize       [hi |-> h, lo |-> l], the number h * 2^16 + l with        *)
(*               0 <= l < 2^16: a length may exceed what one TLC integer   *)
(*               holds.                                                    *)
(*   u64         [hi |-> h, lo |-> l] likewise, h below 2^31.              *)
(***************************************************************************)
EXTENDS Integers, Sequences, FiniteSets, TLC

VARIABLES
  definition_fields,  \* the DefinitionFields every call shares (&self)
  op,                 \* the function the last call entered
  arg,                \* its arguments
  ret,                \* what it returned
  emitted             \* serialize_tx: the (field, bytes) chunks it appended

vars == <<definition_fields, op, arg, ret, emitted>>

----------------------------------------------------------------------------
(* Option and unwinding *)

None == [tag |-> "None", v |-> <<>>]

Some(x) == [tag |-> "Some", v |-> x]

Panic == [tag |-> "Panic", v |-> <<>>]

IsSome(r) == r.tag = "Some"

----------------------------------------------------------------------------
(* Bytes *)

Byte == 0 .. 255

\* i32::to_be_bytes()[3] and u32::to_be_bytes()[3]: the low byte of the
\* two's-complement pattern.
LowByte(x) == x % 256

RECURSIVE BitOr(_, _)
\* a | b on non-negative integers.
BitOr(a, b) ==
  IF a = 0 THEN b
  ELSE IF b = 0 THEN a
  ELSE (IF a % 2 = 1 \/ b % 2 = 1 THEN 1 ELSE 0) + 2 * BitOr(a \div 2, b \div 2)

RECURSIVE Flatten(_)
\* The concatenation of a sequence of sequences.
Flatten(ss) == IF ss = <<>> THEN <<>> ELSE Head(ss) \o Flatten(Tail(ss))

\* A run of n bytes b, b+1, ... (mod 256).
Run(n, b) == [i \in 1 .. n |-> (b + i - 1) % 256]

\* The characters of hexadecimal text.
HexDigitsLower == <<"0", "1", "2", "3", "4", "5", "6", "7",
                    "8", "9", "a", "b", "c", "d", "e", "f">>

HexDigitsUpper == <<"0", "1", "2", "3", "4", "5", "6", "7",
                    "8", "9", "A", "B", "C", "D", "E", "F">>

\* The value of a hexadecimal digit of either case, -1 for any other
\* character.
HexVal(c) ==
  IF \E i \in 1 .. 16 : HexDigitsLower[i] = c
    THEN (CHOOSE i \in 1 .. 16 : HexDigitsLower[i] = c) - 1
  ELSE IF \E i \in 1 .. 16 : HexDigitsUpper[i] = c
    THEN (CHOOSE i \in 1 .. 16 : HexDigitsUpper[i] = c) - 1
  ELSE -1

\* hex::decode / Vec::from_hex: an odd length or a character that is no
\* hexadecimal digit is an error, otherwise each pair of digits is one byte.
hex_decode(s) ==
  IF Len(s) % 2 # 0 THEN None
  ELSE IF \E i \in 1 .. Len(s) : HexVal(s[i]) < 0 THEN None
  ELSE Some([i \in 1 .. Len(s) \div 2 |->
               16 * HexVal(s[2 * i - 1]) + HexVal(s[2 * i])])

\* hex::encode: two lowercase digits per byte.
hex_encode(bytes) ==
  [i \in 1 .. 2 * Len(bytes) |->
     IF i % 2 = 1 THEN HexDigitsLower[(bytes[(i + 1) \div 2] \div 16) + 1]
     ELSE HexDigitsLower[(bytes[i \div 2] % 16) + 1]]

\* str::to_uppercase on hexadecimal text.
to_uppercase(s) ==
  [i \in 1 .. Len(s) |->
     IF HexVal(s[i]) >= 10 THEN HexDigitsUpper[HexVal(s[i]) + 1] ELSE s[i]]

\* The hexadecimal text of n bytes b, b+1, ...
HexOf(bytes) == to_uppercase(hex_encode(bytes))

----------------------------------------------------------------------------
(* serde_json::Value *)

JStr(s) == [t |-> "str", s |-> s]

JObj(o) == [t |-> "obj", o |-> o]

JArr(a) == [t |-> "arr", a |-> a]

JNull == [t |-> "null"]

\* The u64 n, 0 <= n < 2^31.
U64(n) == [hi |-> n \div 65536, lo |-> n % 65536]

\* u64::to_be_bytes: the 8 bytes of n, most significant first.
to_be_bytes(n) ==
  <<0, 0, (n.hi \div 16777216) % 256, (n.hi \div 65536) % 256,
    (n.hi \div 256) % 256, n.hi % 256, n.lo \div 256, n.lo % 256>>

\* The non-negative JSON integer n.
JNum(n) == [t |-> "num", kind |-> "PosInt", n |-> n]

\* The negative JSON integer -n and a JSON number with a fraction.
JNeg(n) == [t |-> "num", kind |-> "NegInt", n |-> n]

JFloat == [t |-> "num", kind |-> "Float", n |-> U64(0)]

\* Value::as_str, as_u64, as_array, as_object.
as_str(val) == IF val.t = "str" THEN Some(val.s) ELSE None

as_u64(val) ==
  IF val.t = "num" /\ val.kind = "PosInt" THEN Some(val.n) ELSE None

as_array(val) == IF val.t = "arr" THEN Some(val.a) ELSE None

as_object(val) == IF val.t = "obj" THEN Some(val.o) ELSE None

\* Map::keys(): the keys in the map's iteration order.
Keys(o) == [i \in 1 .. Len(o) |-> o[i][1]]

\* Map::get.
MapGet(o, k) ==
  IF \E i \in 1 .. Len(o) : o[i][1] = k
    THEN Some(o[CHOOSE i \in 1 .. Len(o) : o[i][1] = k][2])
  ELSE None

----------------------------------------------------------------------------
(* The catalog: fixtures/definitions.json *)

FieldDef(nth, vl, ser, sign, type) ==
  [nth |-> nth, isVLEncoded |-> vl, isSerialized |-> ser,
   isSigningField |-> sign, type |-> type]

TYPES ==
  ("Done" :> -1) @@ ("Unknown" :> -2) @@ ("NotPresent" :> 0) @@
  ("UInt16" :> 1) @@ ("UInt32" :> 2) @@ ("UInt64" :> 3) @@
  ("Hash128" :> 4) @@ ("Hash256" :> 5) @@ ("Amount" :> 6) @@
  ("Blob" :> 7) @@ ("AccountID" :> 8) @@ ("STObject" :> 14) @@
  ("STArray" :> 15) @@ ("UInt8" :> 16) @@ ("Hash160" :> 17) @@
  ("PathSet" :> 18) @@ ("Vector256" :> 19)

FIELDS ==
  ("Generic" :> FieldDef(0, FALSE, FALSE, FALSE, "Unknown")) @@
  ("ObjectEndMarker" :> FieldDef(1, FALSE, TRUE, TRUE, "STObject")) @@
  ("ArrayEndMarker" :> FieldDef(1, FALSE, TRUE, TRUE, "STArray")) @@
  ("hash" :> FieldDef(257, FALSE, FALSE, FALSE, "Hash256")) @@
  ("TransactionType" :> FieldDef(2, FALSE, TRUE, TRUE, "UInt16")) @@
  ("SignerWeight" :> FieldDef(3, FALSE, TRUE, TRUE, "UInt16")) @@
  ("Flags" :> FieldDef(2, FALSE, TRUE, TRUE, "UInt32")) @@
  ("Sequence" :> FieldDef(4, FALSE, TRUE, TRUE, "UInt32")) @@
  ("OfferSequence" :> FieldDef(25, FALSE, TRUE, TRUE, "UInt32")) @@
  ("IndexNext" :> FieldDef(1, FALSE, TRUE, TRUE, "UInt64")) @@
  ("EmailHash" :> FieldDef(1, FALSE, TRUE, TRUE, "Hash128")) @@
  ("AccountTxnID" :> FieldDef(9, FALSE, TRUE, TRUE, "Hash256")) @@
  ("TakerPaysCurrency" :> FieldDef(1, FALSE, TRUE, TRUE, "Hash160")) @@
  ("Account" :> FieldDef(1, TRUE, TRUE, TRUE, "AccountID")) @@
  ("Destination" :> FieldDef(3, TRUE, TRUE, TRUE, "AccountID")) @@
  ("Paths" :> FieldDef(1, FALSE, TRUE, TRUE, "PathSet")) @@
  ("SigningPubKey" :> FieldDef(3, TRUE, TRUE, TRUE, "Blob")) @@
  ("TxnSignature" :> FieldDef(4, TRUE, TRUE, FALSE, "Blob")) @@
  ("MemoType" :> FieldDef(12, TRUE, TRUE, TRUE, "Blob")) @@
  ("MemoData" :> FieldDef(13, TRUE, TRUE, TRUE, "Blob")) @@
  ("Memo" :> FieldDef(10, FALSE, TRUE, TRUE, "STObject")) @@
  ("Signers" :> FieldDef(3, FALSE, TRUE, FALSE, "STArray")) @@
  ("Memos" :> FieldDef(9, FALSE, TRUE, TRUE, "STArray")) @@
  ("TickSize" :> FieldDef(16, FALSE, TRUE, TRUE, "UInt8")) @@
  ("Amount" :> FieldDef(1, FALSE, TRUE, TRUE, "Amount"))

\* The keys are spelled as the strings of a transaction are.
TRANSACTION_TYPES ==
  (<<"I", "n", "v", "a", "l", "i", "d">> :> -1) @@
  (<<"P", "a", "y", "m", "e", "n", "t">> :> 0) @@
  (<<"O", "f", "f", "e", "r", "C", "r", "e", "a", "t", "e">> :> 7) @@
  (<<"T", "r", "u", "s", "t", "S", "e", "t">> :> 20)

\* DefinitionFields::new(): the parsed document.
DefinitionFields_new ==
  [definitions |->
     Some([TYPES |-> TYPES, FIELDS |-> FIELDS,
           TRANSACTION_TYPES |-> TRANSACTION_TYPES])]

\* BTreeMap::get on a table of the catalog.
TableGet(m, k) == IF k \in DOMAIN m THEN Some(m[k]) ELSE None

\* get_definition_field(field_name, key): the attribute `key` of the
\* catalog entry of field_name, None if the catalog or the entry is missing.
get_definition_field(self, field_name, key) ==
  IF ~IsSome(self.definitions) THEN None
  ELSE LET field == TableGet(self.definitions.v.FIELDS, field_name)
       IN  IF ~IsSome(field) THEN None ELSE Some(field.v[key])

\* get_field_sort_key with (0, 0) for a name without sort key.
get_field_sort_key_unknown_zero(self, field_name) ==
  IF ~IsSome(self.definitions) THEN <<0, 0>>
  ELSE LET definitions == self.definitions.v
           f == TableGet(definitions.FIELDS, field_name)
       IN  IF ~IsSome(f) THEN <<0, 0>>
           ELSE LET type_sort_key == TableGet(definitions.TYPES, f.v.type)
                IN  IF ~IsSome(type_sort_key) THEN <<0, 0>>
                    ELSE <<type_sort_key.v, f.v.nth>>

\* get_field_sort_key: (TYPES[type], nth), or (-1, -1) when the field or its
\* type is not in the catalog.
get_field_sort_key(self, field_name) ==
  IF ~IsSome(self.definitions) THEN <<-1, -1>>
  ELSE LET definitions == self.definitions.v
           f == TableGet(definitions.FIELDS, field_name)
       IN  IF ~IsSome(f) THEN <<-1, -1>>
           ELSE LET type_sort_key == TableGet(definitions.TYPES, f.v.type)
                IN  IF ~IsSome(type_sort_key) THEN <<-1, -1>>
                    ELSE <<type_sort_key.v, f.v.nth>>

\* The comparison by type code alone.
SortKeyGreater_type_only(self, a, b) ==
  get_field_sort_key(self, a)[1] > get_field_sort_key(self, b)[1]

\* The comparison of ordering_fields' sort_by closure: a's key is greater
\* than b's.
SortKeyGreater(self, a, b) ==
  LET a_sort_key == get_field_sort_key(self, a)
      b_sort_key == get_field_sort_key(self, b)
  IN  IF a_sort_key[1] = b_sort_key[1] THEN a_sort_key[2] > b_sort_key[2]
      ELSE a_sort_key[1] > b_sort_key[1]

RECURSIVE SortedInsert(_, _, _)
\* k placed in the sorted sequence s behind every element that is not
\* greater than it.
SortedInsert(self, s, k) ==
  IF s = <<>> THEN <<k>>
  ELSE IF SortKeyGreater(self, s[Len(s)], k)
    THEN Append(SortedInsert(self, SubSeq(s, 1, Len(s) - 1), k), s[Len(s)])
  ELSE Append(s, k)

RECURSIVE StableSort(_, _)
\* slice::sort_by: a stable sort, so the result is the one sorted
\* permutation that keeps equal elements in their input order.
StableSort(self, keys) ==
  IF keys = <<>> THEN <<>>
  ELSE SortedInsert(self, StableSort(self, SubSeq(keys, 1, Len(keys) - 1)),
                    keys[Len(keys)])

\* The field names as they came.
ordering_fields_unsorted(self, fields) == fields

\* ordering_fields: the field names sorted by sort key.
ordering_fields(self, fields) == StableSort(self, fields)

\* The field id with the type code first in each of the two-byte forms.
cal_field_id_type_first(field_code, type_code) ==
  IF type_code < 16 /\ field_code < 16
    THEN <<BitOr(LowByte(type_code * 16), LowByte(field_code))>>
  ELSE IF type_code >= 16 /\ field_code < 16
    THEN <<LowByte(type_code), LowByte(field_code)>>
  ELSE IF type_code < 16 /\ field_code >= 16
    THEN <<LowByte(type_code * 16), LowByte(field_code)>>
  ELSE <<0, LowByte(type_code), LowByte(field_code)>>

\* cal_field_id(field_code, type_code): the 1 to 3 bytes of a field id.
cal_field_id(field_code, type_code) ==
  IF type_code < 16 /\ field_code < 16
    THEN <<BitOr(LowByte(type_code * 16), LowByte(field_code))>>
  ELSE IF type_code >= 16 /\ field_code < 16
    THEN <<LowByte(field_code), LowByte(type_code)>>
  ELSE IF type_code < 16 /\ field_code >= 16
    THEN <<LowByte(type_code * 16), LowByte(field_code)>>
  ELSE <<0, LowByte(type_code), LowByte(field_code)>>

\* get_field_id: the field id of a field of the catalog.
get_field_id(self, field_name) ==
  IF ~IsSome(self.definitions) THEN None
  ELSE LET field_type == get_definition_field(self, field_name, "type")
           field_code == get_definition_field(self, field_name, "nth")
       IN  IF ~IsSome(field_type) \/ ~IsSome(field_code) THEN None
           ELSE LET type_code == TableGet(self.definitions.v.TYPES,
                                          field_type.v)
                IN  IF ~IsSome(type_code) THEN None
                    ELSE Some(cal_field_id(field_code.v, type_code.v))

----------------------------------------------------------------------------
(* Lengths *)

\* The usize n, for a length one TLC integer holds.
Usize(n) == [hi |-> n \div 65536, lo |-> n % 65536]

\* `len as u32`: the low 32 bits of a usize.
as_u32(len) == [hi |-> len.hi % 65536, lo |-> len.lo]

\* A u32 below 2^31 as an integer.
U32Int(x) == x.hi * 65536 + x.lo

\* x <= n for a u32 x and a literal n < 2^31.
U32Leq(x, n) == x.hi < 32768 /\ U32Int(x) <= n

\* `len as u8`: the low 8 bits of a usize.
as_u8(len) == len.lo % 256

----------------------------------------------------------------------------
(* cryptoxide::hashing::sha256 *)

\* A 32-bit word is <<hi, lo>>, its two 16-bit halves.
RECURSIVE Xor16(_, _)
Xor16(a, b) ==
  IF a = 0 THEN b
  ELSE IF b = 0 THEN a
  ELSE ((a + b) % 2) + 2 * Xor16(a \div 2, b \div 2)

RECURSIVE And16(_, _)
And16(a, b) ==
  IF a = 0 \/ b = 0 THEN 0
  ELSE (a % 2) * (b % 2) + 2 * And16(a \div 2, b \div 2)

WordXor(x, y) == <<Xor16(x[1], y[1]), Xor16(x[2], y[2])>>

WordAnd(x, y) == <<And16(x[1], y[1]), And16(x[2], y[2])>>

WordNot(x) == <<65535 - x[1], 65535 - x[2]>>

\* Addition modulo 2^32.
WordAdd(x, y) ==
  LET lo == x[2] + y[2]
  IN  <<(x[1] + y[1] + (lo \div 65536)) % 65536, lo % 65536>>

\* x rotated right by n < 32 bits.
RotateRight(x, n) ==
  LET y == IF n >= 16 THEN <<x[2], x[1]>> ELSE x
      m == n % 16
      p == 2 ^ m
      q == 2 ^ (16 - m)
  IN  IF m = 0 THEN y
      ELSE <<(y[1] \div p) + (y[2] % p) * q, (y[2] \div p) + (y[1] % p) * q>>

\* x shifted right by 0 < n < 16 bits.
ShiftRight(x, n) ==
  LET p == 2 ^ n
      q == 2 ^ (16 - n)
  IN  <<x[1] \div p, (x[2] \div p) + (x[1] % p) * q>>

Sha256K == <<
    <<17034, 12184>>, <<28983, 17553>>, <<46528, 64463>>, <<59829, 56229>>,
    <<14678, 49755>>, <<23025, 4593>>, <<37439, 33444>>, <<43804, 24277>>,
    <<55303, 43672>>, <<4739, 23297>>, <<9265, 34238>>, <<21772, 32195>>,
    <<29374, 23924>>, <<32990, 45566>>, <<39900, 1703>>, <<49563, 61812>>,
    <<58523, 27073>>, <<61374, 18310>>, <<4033, 40390>>, <<9228, 41420>>,
    <<11753, 11375>>, <<19060, 33962>>, <<23728, 43484>>, <<30457, 35034>>,
    <<38974, 20818>>, <<43057, 50797>>, <<45059, 10184>>, <<48985, 32711>>,
    <<50912, 3059>>, <<54695, 37191>>, <<1738, 25425>>, <<5161, 10599>>,
    <<10167, 2693>>, <<11803, 8504>>, <<19756, 28156>>, <<21304, 3347>>,
    <<25866, 29524>>, <<30314, 2747>>, <<33218, 51502>>, <<37490, 11397>>,
    <<41663, 59553>>, <<43034, 26187>>, <<49739, 35696>>, <<51052, 20899>>,
    <<53650, 59417>>, <<54937, 1572>>, <<62478, 13701>>, <<4202, 41072>>,
    <<6564, 49430>>, <<7735, 27656>>, <<10056, 30540>>, <<13488, 48309>>,
    <<14620, 3251>>, <<20184, 43594>>, <<23452, 51791>>, <<26670, 28659>>,
    <<29839, 33518>>, <<30885, 25455>>, <<33992, 30740>>, <<36039, 520>>,
    <<37054, 65530>>, <<42064, 27883>>, <<48889, 41975>>, <<50801, 30962>> >>

Sha256H0 == <<
    <<27145, 58983>>, <<47975, 44677>>, <<15470, 62322>>, <<42319, 62778>>,
    <<20750, 21119>>, <<39685, 26764>>, <<8067, 55723>>, <<23520, 52505>> >>

\* The functions sigma0 and sigma1 of the message schedule.
Sha256Sigma0(x) ==
  WordXor(WordXor(RotateRight(x, 7), RotateRight(x, 18)), ShiftRight(x, 3))

Sha256Sigma1(x) ==
  WordXor(WordXor(RotateRight(x, 17), RotateRight(x, 19)), ShiftRight(x, 10))

RECURSIVE Sha256Schedule(_)
\* The message schedule: the 16 words of the block extended to 64.
Sha256Schedule(w) ==
  IF Len(w) >= 64 THEN w
  ELSE Sha256Schedule(
         Append(w, WordAdd(WordAdd(Sha256Sigma1(w[Len(w) - 1]),
                                   w[Len(w) - 6]),
                           WordAdd(Sha256Sigma0(w[Len(w) - 14]),
                                   w[Len(w) - 15]))))

\* One round of the compression on the working variables v = a .. h: the
\* two sums of the round, and the variables after it.
Sha256Temp1(v, k, w) ==
  WordAdd(WordAdd(WordAdd(v[8],
                          WordXor(WordXor(RotateRight(v[5], 6),
                                          RotateRight(v[5], 11)),
                                  RotateRight(v[5], 25))),
                  WordAdd(WordXor(WordAnd(v[5], v[6]),
                                  WordAnd(WordNot(v[5]), v[7])), k)), w)

Sha256Temp2(v) ==
  WordAdd(WordXor(WordXor(RotateRight(v[1], 2), RotateRight(v[1], 13)),
                  RotateRight(v[1], 22)),
          WordXor(WordXor(WordAnd(v[1], v[2]), WordAnd(v[1], v[3])),
                  WordAnd(v[2], v[3])))

Sha256Round(v, temp1, temp2) ==
  <<WordAdd(temp1, temp2), v[1], v[2], v[3],
    WordAdd(v[4], temp1), v[5], v[6], v[7]>>

RECURSIVE Sha256Rounds(_, _)
\* The rounds of the compression from round r.t on, r.v the working
\* variables a .. h.
Sha256Rounds(r, w) ==
  IF r.t > 64 THEN r.v
  ELSE Sha256Rounds([t |-> r.t + 1,
                     v |-> Sha256Round(r.v,
                                       Sha256Temp1(r.v, Sha256K[r.t], w[r.t]),
                                       Sha256Temp2(r.v))], w)

\* The message padded to whole blocks of 64 bytes: a one bit, zeros, and
\* the length in bits (below 2^31 here).
Sha256Pad(data) ==
  LET bits == 8 * Len(data)
  IN  data \o <<128>> \o [i \in 1 .. (119 - Len(data)) % 64 |-> 0] \o
      <<0, 0, 0, 0, (bits \div 16777216) % 256, (bits \div 65536) % 256,
        (bits \div 256) % 256, bits % 256>>

\* The 16 words of the block of msg that starts after byte at.
Sha256Words(msg, at) ==
  [k \in 1 .. 16 |->
     <<msg[at + 4 * k - 3] * 256 + msg[at + 4 * k - 2],
       msg[at + 4 * k - 1] * 256 + msg[at + 4 * k]>>] \o <<>>

\* The hash value h after a block that left the working variables v.
Sha256Add(h, v) == [k \in 1 .. 8 |-> WordAdd(h[k], v[k])] \o <<>>

RECURSIVE Sha256Blocks(_, _, _)
\* The hash value h after the blocks of msg from block i on.
Sha256Blocks(msg, i, h) ==
  IF 64 * (i - 1) >= Len(msg) THEN h
  ELSE Sha256Blocks(msg, i + 1,
         Sha256Add(h, Sha256Rounds(
                        [t |-> 1, v |-> h],
                        Sha256Schedule(Sha256Words(msg, 64 * (i - 1))))))

\* The bytes of the hash value h, each word big-endian.
Sha256Bytes(h) ==
  Flatten([k \in 1 .. 8 |->
             <<h[k][1] \div 256, h[k][1] % 256,
               h[k][2] \div 256, h[k][2] % 256>>])

\* hashing::sha256(data): the 32 bytes of the SHA-256 hash of data.
hashing_sha256(data) ==
  Sha256Bytes(Sha256Blocks(Sha256Pad(data), 1, Sha256H0))

----------------------------------------------------------------------------
(* ripple_address_codec *)

\* Result<T>: Ok(x) and Err(DecodeError).
Ok(x) == [tag |-> "Ok", v |-> x]

Err == [tag |-> "Err", v |-> <<>>]

\* Result::ok(), under which a panic still unwinds.
ok(r) ==
  IF r.tag = "Ok" THEN Some(r.v) ELSE IF r.tag = "Panic" THEN Panic ELSE None

CHECKSUM_LENGTH == 4

PAYLOAD_LEN == 20

PREFIX == <<0>>

ALPHABET == <<
    "r", "p", "s", "h", "n", "a", "f", "3", "9", "w",
    "B", "U", "D", "N", "E", "G", "H", "J", "K", "L",
    "M", "4", "P", "Q", "R", "S", "T", "7", "V", "W",
    "X", "Y", "Z", "2", "b", "c", "d", "e", "C", "g",
    "6", "5", "j", "k", "m", "8", "o", "F", "q", "i",
    "1", "t", "u", "v", "A", "x", "y", "z" >>

\* The digit a character of the alphabet stands for.
AlphabetIndex(c) == (CHOOSE i \in 1 .. Len(ALPHABET) : ALPHABET[i] = c) - 1

RECURSIVE MulAdd(_, _, _)
\* BigUint::mul_add: the big-endian bytes, without leading zeros, of
\* n * m + c for the number n given the same way.
MulAdd(n, m, c) ==
  IF n = <<>>
    THEN IF c = 0 THEN <<>> ELSE Append(MulAdd(<<>>, m, c \div 256), c % 256)
  ELSE LET x == n[Len(n)] * m + c
       IN  Append(MulAdd(SubSeq(n, 1, Len(n) - 1), m, x \div 256), x % 256)

RECURSIVE DecodeDigits(_, _, _)
\* The number the digits of s from position i on continue big to.
DecodeDigits(s, i, big) ==
  IF i > Len(s) THEN big
  ELSE DecodeDigits(s, i + 1,
                    MulAdd(big, Len(ALPHABET), AlphabetIndex(s[i])))

\* The number of leading characters of s that are c.
Leaders(s, c) ==
  IF \A i \in 1 .. Len(s) : s[i] = c THEN Len(s)
  ELSE (CHOOSE i \in 1 .. Len(s) :
          s[i] # c /\ \A j \in 1 .. i - 1 : s[j] = c) - 1

\* base_x::decode(ALPHABET, s): the bytes of the number s writes in base
\* 58, after one zero byte for each leading first character of the alphabet;
\* an error for a character outside the alphabet.
base_x_decode(s) ==
  IF \E i \in 1 .. Len(s) : \A k \in 1 .. Len(ALPHABET) : ALPHABET[k] # s[i]
    THEN Err
  ELSE Ok([i \in 1 .. Leaders(s, ALPHABET[1]) |-> 0] \o
          DecodeDigits(s, 1, <<>>))

\* The account given in the tests of account.rs.
TestAccount ==
  <<"r", "M", "B", "z", "p", "8", "C", "g", "p", "E", "4", "4", "1", "c",
    "p", "5", "P", "V", "y", "A", "9", "r", "p", "V", "V", "7", "o", "T",
    "8", "h", "P", "3", "y", "s">>

\* The account of the payload of twenty bytes 0xDD.
AccountA ==
  <<"r", "M", "N", "3", "f", "x", "j", "s", "t", "w", "h", "x", "e", "E",
    "h", "9", "D", "q", "w", "r", "Z", "f", "J", "Y", "F", "f", "p", "M",
    "K", "S", "9", "N", "2", "j">>

\* The account of the payload of twenty zero bytes.
AccountB ==
  <<"r", "r", "r", "r", "r", "r", "r", "r", "r", "r", "r", "r", "r", "r",
    "r", "r", "r", "r", "r", "r", "r", "h", "o", "L", "v", "T", "p">>

\* Texts given where an account is read: the accounts; AccountA with its
\* last character changed; the texts, with checksum, of payloads of 19 and
\* of 21 bytes 0xDD and of the payload of AccountA after the prefix 5; the
\* text of 25 bytes without checksum; texts of fewer than five bytes; and
\* characters that are not of the alphabet.
AccountTexts ==
  {AccountA, AccountB, TestAccount,
   <<"r", "M", "N", "3", "f", "x", "j", "s", "t", "w", "h", "x", "e", "E",
     "h", "9", "D", "q", "w", "r", "Z", "f", "J", "Y", "F", "f", "p", "M",
     "K", "S", "9", "N", "2", "z">>,
   <<"r", "n", "2", "8", "Z", "q", "1", "m", "9", "1", "Y", "E", "1", "2",
     "Y", "X", "Q", "k", "Y", "s", "P", "g", "V", "S", "8", "Z", "d", "W",
     "f", "i", "a", "R", "3">>,
   <<"r", "p", "Y", "G", "v", "R", "5", "x", "b", "5", "o", "p", "7", "b",
     "P", "p", "1", "H", "d", "Y", "m", "S", "5", "F", "T", "Q", "u", "2",
     "x", "F", "Q", "3", "7", "E", "F", "N">>,
   <<"s", "M", "v", "9", "s", "W", "D", "V", "S", "h", "P", "L", "j", "Q",
     "k", "2", "L", "v", "F", "b", "y", "j", "C", "7", "x", "d", "K", "h",
     "q", "v", "2", "a", "v", "A">>,
   <<"r", "M", "N", "3", "f", "x", "j", "s", "t", "w", "h", "x", "e", "E",
     "h", "9", "D", "q", "w", "r", "Z", "f", "J", "Y", "F", "f", "p", "M",
     "M", "G", "e", "h", "D", "p">>,
   <<>>, <<"r">>, <<"r", "r", "r", "r">>, <<"r", "r", "r", "r", "r">>,
   <<"p", "p">>, <<"0">>, <<"r", "l">>}

\* The decodings of the texts of AccountTexts, computed once.
Base58Once == {<<t, base_x_decode(t)>> : t \in AccountTexts}

\* The decoding of s: the one of `once`, a subset of Base58Once, if it has
\* any.
Base58Read(once, s) ==
  IF once # {} THEN (CHOOSE p \in once : TRUE)[2] ELSE base_x_decode(s)

\* decode_with_xrp_alphabet: base_x::decode(ALPHABET, s), read from
\* Base58Once where it holds s.
decode_with_xrp_alphabet(s) == Base58Read({p \in Base58Once : p[1] = s}, s)

\* The bytes the checksum of a text of AccountTexts is computed from.
ChecksumInputs ==
  {SubSeq(p[2].v, 1, Len(p[2].v) - CHECKSUM_LENGTH) :
     p \in {x \in Base58Once :
              x[2].tag = "Ok" /\ Len(x[2].v) > CHECKSUM_LENGTH}}

\* The pairs `first` of bytes and hash, and those of the hashes with theirs.
Sha256Twice(first) ==
  first \cup {<<p[2], hashing_sha256(p[2])>> : p \in first}

\* The hashes of those bytes and of their hashes, computed once.
Sha256Once == Sha256Twice({<<d, hashing_sha256(d)>> : d \in ChecksumInputs})

\* The hash of data: the one of `once`, a subset of Sha256Once, if it has
\* any.
Sha256Read(once, data) ==
  IF once # {} THEN (CHOOSE p \in once : TRUE)[2] ELSE hashing_sha256(data)

\* sha256_digest: hashing::sha256(data), read from Sha256Once where it
\* holds data.
sha256_digest(data) == Sha256Read({p \in Sha256Once : p[1] = data}, data)

calc_checksum(bytes) ==
  SubSeq(sha256_digest(sha256_digest(bytes)), 1, CHECKSUM_LENGTH)

verify_checksum(input, checksum) ==
  IF calc_checksum(input) = checksum THEN Ok(<<>>) ELSE Err

verify_checksum_length(bytes) ==
  IF Len(bytes) < CHECKSUM_LENGTH + 1 THEN Err ELSE Ok(<<>>)

verify_prefix(prefix, bytes) ==
  IF Len(bytes) >= Len(prefix) /\ SubSeq(bytes, 1, Len(prefix)) = prefix
    THEN Ok(<<>>)
  ELSE Err

get_checked_bytes(bytes_with_checksum) ==
  IF verify_checksum_length(bytes_with_checksum).tag # "Ok" THEN Err
  ELSE IF verify_checksum(
            SubSeq(bytes_with_checksum, 1,
                   Len(bytes_with_checksum) - CHECKSUM_LENGTH),
            SubSeq(bytes_with_checksum,
                   Len(bytes_with_checksum) - CHECKSUM_LENGTH + 1,
                   Len(bytes_with_checksum))).tag # "Ok"
    THEN Err
  ELSE Ok(SubSeq(bytes_with_checksum, 1,
                 Len(bytes_with_checksum) - CHECKSUM_LENGTH))

\* verify_payload_len: bytes.len() - CHECKSUM_LENGTH overflows for fewer
\* than four bytes, and the slice prefix_len .. end panics when its end is
\* before its start.
verify_payload_len(bytes, prefix_len, expected_len) ==
  IF Len(bytes) < CHECKSUM_LENGTH THEN Panic
  ELSE IF prefix_len > Len(bytes) - CHECKSUM_LENGTH THEN Panic
  ELSE IF Len(bytes) - CHECKSUM_LENGTH - prefix_len = expected_len
    THEN Ok(<<>>)
  ELSE Err

\* get_payload, after get_checked_bytes: the checked bytes without the
\* prefix.
get_payload_checked(checked_bytes) ==
  IF checked_bytes.tag # "Ok" THEN Err
  ELSE Ok(SubSeq(checked_bytes.v, Len(PREFIX) + 1, Len(checked_bytes.v)))

\* get_payload(bytes, Address).
get_payload(bytes) ==
  LET len_ok == verify_payload_len(bytes, Len(PREFIX), PAYLOAD_LEN)
  IN  IF len_ok.tag # "Ok" THEN len_ok
      ELSE IF verify_prefix(PREFIX, bytes).tag # "Ok" THEN Err
      ELSE get_payload_checked(get_checked_bytes(bytes))

\* decode_account_id, after get_payload: payload.try_into() of twenty bytes.
decode_account_id_payload(payload) ==
  IF payload.tag # "Ok" THEN payload
  ELSE IF Len(payload.v) = PAYLOAD_LEN THEN payload ELSE Err

\* decode_account_id, after decode_with_xrp_alphabet.
decode_account_id_decoded(decoded_bytes) ==
  IF decoded_bytes.tag # "Ok" THEN Err
  ELSE decode_account_id_payload(get_payload(decoded_bytes.v))

decode_account_id(account_id) ==
  decode_account_id_decoded(decode_with_xrp_alphabet(account_id))

----------------------------------------------------------------------------
(* The encoders of the field types *)

\* The length prefix with the first byte of the third bucket from 240 on.
vl_encode_prefix_from_240(input_len) ==
  LET vl_len == as_u32(input_len)
  IN  IF U32Leq(vl_len, 192)
        THEN Some(<<LowByte(U32Int(vl_len))>>)
      ELSE IF U32Leq(vl_len, 12480)
        THEN LET l == U32Int(vl_len) - 193
             IN  Some(<<LowByte((l \div 256) + 193), LowByte(l % 256)>>)
      ELSE IF U32Leq(vl_len, 918744)
        THEN LET l == U32Int(vl_len) - 12481
             IN  Some(<<LowByte(240 + (l \div 65536)),
                        LowByte((l \div 256) % 256), LowByte(l % 256)>>)
      ELSE None

\* vl_encode, the bytes it writes before the content: the length prefix of
\* a content of input_len bytes, None when the length is in no bucket.
vl_encode_prefix(input_len) ==
  LET vl_len == as_u32(input_len)
  IN  IF U32Leq(vl_len, 192)
        THEN Some(<<LowByte(U32Int(vl_len))>>)
      ELSE IF U32Leq(vl_len, 12480)
        THEN LET l == U32Int(vl_len) - 193
                 byte1 == (l \div 256) + 193
                 byte2 == l % 256
             IN  Some(<<LowByte(byte1), LowByte(byte2)>>)
      ELSE IF U32Leq(vl_len, 918744)
        THEN LET l == U32Int(vl_len) - 12481
                 byte1 == 241 + (l \div 65536)
                 byte2 == (l \div 256) % 256
                 byte3 == l % 256
             IN  Some(<<LowByte(byte1), LowByte(byte2), LowByte(byte3)>>)
      ELSE None

\* vl_encode: the prefix, then the content.
vl_encode(input) ==
  LET prefix == vl_encode_prefix(Usize(Len(input)))
  IN  IF IsSome(prefix) THEN Some(prefix.v \o input) ELSE None

\* Hash::to_bytes / hash_to_bytes(input, len).
hash_to_bytes(input, len) ==
  LET str == as_str(input)
  IN  IF ~IsSome(str) THEN None
      ELSE LET decoded == hex_decode(str.v)
           IN  IF ~IsSome(decoded) THEN None
               ELSE LET input_len == as_u8(Usize(Len(decoded.v)))
                    IN  IF len = input_len THEN Some(decoded.v) ELSE None

\* Blob::to_bytes / blob_to_bytes.
blob_to_bytes(input) ==
  LET str == as_str(input)
  IN  IF ~IsSome(str) THEN None
      ELSE LET decoded == hex_decode(str.v)
           IN  IF IsSome(decoded) THEN vl_encode(decoded.v) ELSE None

\* Account::to_bytes, after decode_account_id(account).ok()?.
Account_vl_encode(vl_content) ==
  IF ~IsSome(vl_content) THEN vl_content ELSE vl_encode(vl_content.v)

\* Account::to_bytes / account_id_to_bytes.
Account_to_bytes(input) ==
  IF ~IsSome(as_str(input)) THEN None
  ELSE Account_vl_encode(ok(decode_account_id(as_str(input).v)))

\* The characters of regex_currency_code_iso_4217 and their ASCII codes.
IsoChars == <<
    "A", "B", "C", "D", "E", "F", "G", "H", "I", "J", "K", "L",
    "M", "N", "O", "P", "Q", "R", "S", "T", "U", "V", "W", "X",
    "Y", "Z", "a", "b", "c", "d", "e", "f", "g", "h", "i", "j",
    "k", "l", "m", "n", "o", "p", "q", "r", "s", "t", "u", "v",
    "w", "x", "y", "z", "0", "1", "2", "3", "4", "5", "6", "7",
    "8", "9", "?", "!", "@", "#", "$", "%", "^", "&", "*", "<",
    ">", "(", ")", "{", "}", "[", "]", "|" >>

IsoCodes == <<
    65, 66, 67, 68, 69, 70, 71, 72, 73, 74, 75, 76,
    77, 78, 79, 80, 81, 82, 83, 84, 85, 86, 87, 88,
    89, 90, 97, 98, 99, 100, 101, 102, 103, 104, 105, 106,
    107, 108, 109, 110, 111, 112, 113, 114, 115, 116, 117, 118,
    119, 120, 121, 122, 48, 49, 50, 51, 52, 53, 54, 55,
    56, 57, 63, 33, 64, 35, 36, 37, 94, 38, 42, 60,
    62, 40, 41, 123, 125, 91, 93, 124 >>

regex_currency_code_iso_4217(input) ==
  /\ Len(input) = 3
  /\ \A i \in 1 .. 3 : \E k \in 1 .. Len(IsoChars) : IsoChars[k] = input[i]

regex_currency_code_hex(input) ==
  /\ Len(input) = 40
  /\ \A i \in 1 .. 40 : HexVal(input[i]) >= 0

\* AsciiStr::from_ascii(..).as_bytes() on characters of IsoChars.
AsciiBytes(input) ==
  [i \in 1 .. Len(input) |->
     IsoCodes[CHOOSE k \in 1 .. Len(IsoChars) : IsoChars[k] = input[i]]]

\* currency_code_to_bytes taking XRP in either context.
currency_code_to_bytes_xrp_always(input, xrp_ok) ==
  IF regex_currency_code_iso_4217(input)
    THEN IF input = <<"X", "R", "P">> THEN Some([i \in 1 .. 20 |-> 0])
         ELSE Some([i \in 1 .. 12 |-> 0] \o AsciiBytes(input) \o
                   [i \in 1 .. 5 |-> 0])
  ELSE IF regex_currency_code_hex(input) THEN hex_decode(input)
  ELSE None

currency_code_to_bytes(input, xrp_ok) ==
  IF regex_currency_code_iso_4217(input)
    THEN IF input = <<"X", "R", "P">>
           THEN IF xrp_ok THEN Some([i \in 1 .. 20 |-> 0]) ELSE None
         ELSE Some([i \in 1 .. 12 |-> 0] \o AsciiBytes(input) \o
                   [i \in 1 .. 5 |-> 0])
  ELSE IF regex_currency_code_hex(input) THEN hex_decode(input)
  ELSE None

----------------------------------------------------------------------------
(* types::amount *)

\* An integer wider than a TLC number is the sequence of its decimal
\* digits, most significant first and without leading zeros: 0 is <<>>.
DecChars == <<"0", "1", "2", "3", "4", "5", "6", "7", "8", "9">>

\* The value of a decimal digit, -1 for any other character.
DigitVal(c) ==
  IF \E i \in 1 .. 10 : DecChars[i] = c
    THEN (CHOOSE i \in 1 .. 10 : DecChars[i] = c) - 1
  ELSE -1

\* The digits of the characters of s.
DigitsOf(s) == [i \in 1 .. Len(s) |-> DigitVal(s[i])]

\* The digits d without their leading zeros.
TrimZeros(d) == SubSeq(d, Leaders(d, 0) + 1, Len(d))

\* a < b and a <= b for sequences of one length, read as numbers in any
\* base.
SeqLess(a, b) ==
  \E i \in 1 .. Len(a) : a[i] < b[i] /\ \A j \in 1 .. i - 1 : a[j] = b[j]

\* a < b for numbers in decimal digits.
DecLess(a, b) == Len(a) < Len(b) \/ (Len(a) = Len(b) /\ SeqLess(a, b))

\* 10^n in decimal digits.
Pow10(n) == <<1>> \o [i \in 1 .. n |-> 0]

\* mantissa * 10 and mantissa / 10 in decimal digits.
Times10(d) == IF d = <<>> THEN d ELSE Append(d, 0)

DivBy10(d) == SubSeq(d, 1, Len(d) - 1)

RECURSIVE DecToBytes(_, _, _)
\* The big-endian bytes, without leading zeros, of the number the digits of
\* d from position i on continue big to.
DecToBytes(d, i, big) ==
  IF i > Len(d) THEN big ELSE DecToBytes(d, i + 1, MulAdd(big, 10, d[i]))

\* A u64 or the bit pattern of an i64: 8 bytes, most significant first.
Pad64(bytes) == [i \in 1 .. 8 - Len(bytes) |-> 0] \o bytes

\* The u64 of a number in decimal digits that is below 2^64.
DecToU64(d) == Pad64(DecToBytes(d, 1, <<>>))

\* a | b on u64 and i64.
BitOr64(a, b) == [i \in 1 .. 8 |-> BitOr(a[i], b[i])]

RECURSIVE Inc64(_)
\* bytes + 1, wrapping.
Inc64(bytes) ==
  IF bytes = <<>> THEN <<>>
  ELSE IF bytes[Len(bytes)] = 255
    THEN Append(Inc64(SubSeq(bytes, 1, Len(bytes) - 1)), 0)
  ELSE Append(SubSeq(bytes, 1, Len(bytes) - 1), bytes[Len(bytes)] + 1)

\* i64::overflowing_neg().0: the two's complement.
overflowing_neg(a) == Inc64([i \in 1 .. 8 |-> 255 - a[i]])

\* a < 0 and a < b on i64.
I64Negative(a) == a[1] >= 128

I64Less(a, b) ==
  IF I64Negative(a) # I64Negative(b) THEN I64Negative(a) ELSE SeqLess(a, b)

\* i64::MAX and the magnitude of i64::MIN in decimal digits.
I64Max == <<9, 2, 2, 3, 3, 7, 2, 0, 3, 6, 8, 5, 4, 7, 7, 5, 8, 0, 7>>

I64MinMagnitude == <<9, 2, 2, 3, 3, 7, 2, 0, 3, 6, 8, 5, 4, 7, 7, 5, 8, 0, 8>>

\* i64::from_str on the digits after the sign.
i64_from_digits(negative, s) ==
  IF s = <<>> THEN Err
  ELSE IF \E i \in 1 .. Len(s) : DigitVal(s[i]) < 0 THEN Err
  ELSE IF negative
    THEN IF DecLess(I64MinMagnitude, TrimZeros(DigitsOf(s))) THEN Err
         ELSE Ok(overflowing_neg(DecToU64(TrimZeros(DigitsOf(s)))))
  ELSE IF DecLess(I64Max, TrimZeros(DigitsOf(s))) THEN Err
  ELSE Ok(DecToU64(TrimZeros(DigitsOf(s))))

\* i64::from_str: an optional sign and at least one digit, in range.
i64_from_str(s) ==
  IF s = <<>> THEN Err
  ELSE IF s[1] = "-" THEN i64_from_digits(TRUE, Tail(s))
  ELSE IF s[1] = "+" THEN i64_from_digits(FALSE, Tail(s))
  ELSE i64_from_digits(FALSE, s)

MIN_MANTISSA == Pow10(15)

MAX_MANTISSA == [i \in 1 .. 16 |-> 9]

MIN_EXP == -96

MAX_EXP == 80

\* Decimal::MAX, 2^96 - 1, and the largest scale of a Decimal.
DecimalMax ==
  <<7, 9, 2, 2, 8, 1, 6, 2, 5, 1, 4, 2, 6, 4, 3, 3, 7, 5, 9, 3, 5, 4, 3,
    9, 5, 0, 3, 3, 5>>

DecimalMaxScale == 28

\* The position of the first point of s, Len(s) + 1 without one.
PointAt(s) ==
  IF \E i \in 1 .. Len(s) : s[i] = "."
    THEN CHOOSE i \in 1 .. Len(s) : s[i] = "." /\ \A j \in 1 .. i - 1 : s[j] # "."
  ELSE Len(s) + 1

\* Decimal::from_str on the integer digits int and the decimals frac of a
\* text: the digits together are the mantissa, the number of decimals is
\* the scale.
Decimal_from_parts(negative, int, frac) ==
  IF int = <<>> /\ frac = <<>> THEN Err
  ELSE IF \E i \in 1 .. Len(int) : DigitVal(int[i]) < 0 THEN Err
  ELSE IF \E i \in 1 .. Len(frac) : DigitVal(frac[i]) < 0 THEN Err
  ELSE IF Len(frac) > DecimalMaxScale THEN Err
  ELSE IF DecLess(DecimalMax, TrimZeros(DigitsOf(int \o frac))) THEN Err
  ELSE Ok([negative |-> negative, mantissa |-> TrimZeros(DigitsOf(int \o frac)), scale |-> Len(frac)])

\* Decimal::from_str on the text after the sign.
Decimal_from_unsigned(negative, s) ==
  Decimal_from_parts(negative, SubSeq(s, 1, PointAt(s) - 1), SubSeq(s, PointAt(s) + 1, Len(s)))

\* Decimal::from_str for a text of signs, digits and points with at most
\* DecimalMaxScale decimals and a mantissa of at most 96 bits (the library
\* rounds a text with more decimals): an optional sign, digits, and at most
\* one point.
Decimal_from_str(s) ==
  IF s = <<>> THEN Err
  ELSE IF s[1] = "-" THEN Decimal_from_unsigned(TRUE, Tail(s))
  ELSE IF s[1] = "+" THEN Decimal_from_unsigned(FALSE, Tail(s))
  ELSE Decimal_from_unsigned(FALSE, s)

\* Decimal::is_zero and Decimal::is_sign_positive.
is_zero(value) == value.mantissa = <<>>

is_sign_positive(value) == ~value.negative

\* The zero with the bit of a positive value.
canonical_zero_serial_positive ==
  hex_decode(<<"c", "0", "0", "0", "0", "0", "0", "0",
               "0", "0", "0", "0", "0", "0", "0", "0">>)

\* IssuedAmount::canonical_zero_serial.
canonical_zero_serial ==
  hex_decode(<<"8", "0", "0", "0", "0", "0", "0", "0",
               "0", "0", "0", "0", "0", "0", "0", "0">>)

RECURSIVE IssuedAmount_scale_up(_, _)
\* The first loop of IssuedAmount::to_bytes: a mantissa below MIN_MANTISSA
\* takes a digit from the exponent.
IssuedAmount_scale_up(mantissa, exp) ==
  IF DecLess(mantissa, MIN_MANTISSA) /\ exp > MIN_EXP
    THEN IssuedAmount_scale_up(Times10(mantissa), exp - 1)
  ELSE [mantissa |-> mantissa, exp |-> exp]

RECURSIVE IssuedAmount_scale_down(_, _)
\* The second loop: a mantissa above MAX_MANTISSA loses its last digit to
\* the exponent, which must stay below MAX_EXP.
IssuedAmount_scale_down(mantissa, exp) ==
  IF DecLess(MAX_MANTISSA, mantissa)
    THEN IF exp >= MAX_EXP THEN None
         ELSE IssuedAmount_scale_down(DivBy10(mantissa), exp + 1)
  ELSE Some([mantissa |-> mantissa, exp |-> exp])

\* exp << 54 for a u64 exp below 1024.
ShiftLeft54(exp) == <<exp \div 4, (exp % 4) * 64, 0, 0, 0, 0, 0, 0>>

\* The marker bit alone, whatever the sign.
IssuedAmount_sign_unmarked(value) == <<128, 0, 0, 0, 0, 0, 0, 0>>

\* The sign bits of the header: 0x8000000000000000, with
\* 0x4000000000000000 for a positive value.
IssuedAmount_sign(value) ==
  IF is_sign_positive(value)
    THEN BitOr64(<<128, 0, 0, 0, 0, 0, 0, 0>>, <<64, 0, 0, 0, 0, 0, 0, 0>>)
  ELSE <<128, 0, 0, 0, 0, 0, 0, 0>>

\* IssuedAmount::to_bytes after the loops: the range tests and the header
\* of sign, exponent and mantissa.
IssuedAmount_header(value, mantissa, exp) ==
  IF exp < MIN_EXP \/ DecLess(mantissa, MIN_MANTISSA) THEN canonical_zero_serial
  ELSE IF exp > MAX_EXP \/ DecLess(MAX_MANTISSA, mantissa) THEN None
  ELSE IF exp + 97 < 0 THEN None
  ELSE Some(BitOr64(BitOr64(IssuedAmount_sign(value), ShiftLeft54(exp + 97)), DecToU64(mantissa)))

\* IssuedAmount::to_bytes on the parsed value, which is not zero.
IssuedAmount_normalize(value, scaled) ==
  IF ~IsSome(scaled) THEN None
  ELSE IssuedAmount_header(value, scaled.v.mantissa, scaled.v.exp)

IssuedAmount_scaled(up) == IssuedAmount_scale_down(up.mantissa, up.exp)

IssuedAmount_encode(value) ==
  IF is_zero(value) THEN canonical_zero_serial
  ELSE IssuedAmount_normalize(value, IssuedAmount_scaled(IssuedAmount_scale_up(value.mantissa, 0 - value.scale)))

\* IssuedAmount::to_bytes: the 8 bytes of the value of the text.
IssuedAmount_to_bytes(strnum) ==
  IF Decimal_from_str(strnum).tag # "Ok" THEN None
  ELSE IssuedAmount_encode(Decimal_from_str(strnum).v)

\* base.pow(17) and 0x4000000000000000 as i64.
I64Pow10_17 == DecToU64(Pow10(17))

I64Bit62 == <<64, 0, 0, 0, 0, 0, 0, 0>>

\* The first test without the `|=`.
Amount_native_positive_unmarked(amount) == amount

\* Amount::to_bytes on a text that is an i64: the first test and the `|=`.
Amount_native_positive(amount) ==
  IF ~I64Negative(amount) /\ ~I64Less(I64Pow10_17, amount)
    THEN BitOr64(amount, I64Bit62)
  ELSE amount

\* The second test and the negation.
Amount_native_negative(amount) ==
  IF I64Negative(amount) /\ ~I64Less(amount, overflowing_neg(I64Pow10_17))
    THEN overflowing_neg(amount)
  ELSE amount

\* Amount::to_bytes on a text: put_i64 of the amount, nothing for a text
\* that is no i64.
Amount_native(parsed) ==
  IF parsed.tag # "Ok" THEN None
  ELSE Some(Amount_native_negative(Amount_native_positive(parsed.v)))

\* The keys of objects given as amounts, in the order of str::cmp.
AmountKeyOrder == <<"aaa", "currency", "issuer", "memo", "value", "zzz">>

\* keys.sort() on keys of AmountKeyOrder.
Amount_sorted_keys(keys) ==
  SelectSeq(AmountKeyOrder, LAMBDA k : \E i \in 1 .. Len(keys) : keys[i] = k)

\* The amount and the issuer without the currency code between them.
Amount_issued_put_without_code(issue_amount, currency_code, address) ==
  IF address.tag = "Panic" THEN Panic
  ELSE IF address.tag # "Ok" THEN None
  ELSE Some(issue_amount \o address.v)

\* The parts of an issued amount one after the other.
Amount_issued_put(issue_amount, currency_code, address) ==
  IF address.tag = "Panic" THEN Panic
  ELSE IF address.tag # "Ok" THEN None
  ELSE Some(issue_amount \o currency_code \o address.v)

\* obj.get(issuer)?.as_str()? and decode_account_id(address).ok()?.
Amount_issued_issuer(obj, issuer, issue_amount, currency_code) ==
  IF ~IsSome(MapGet(obj, issuer)) THEN None
  ELSE IF ~IsSome(as_str(MapGet(obj, issuer).v)) THEN None
  ELSE Amount_issued_put(issue_amount, currency_code, decode_account_id(as_str(MapGet(obj, issuer).v).v))

\* currency_code_to_bytes(currency, false)?.
Amount_issued_code(obj, issuer, issue_amount, currency_code) ==
  IF ~IsSome(currency_code) THEN None
  ELSE Amount_issued_issuer(obj, issuer, issue_amount, currency_code.v)

\* obj.get(currency)?.as_str()?.
Amount_issued_currency(obj, currency, issuer, issue_amount) ==
  IF ~IsSome(issue_amount) THEN None
  ELSE IF ~IsSome(MapGet(obj, currency)) THEN None
  ELSE IF ~IsSome(as_str(MapGet(obj, currency).v)) THEN None
  ELSE Amount_issued_code(obj, issuer, issue_amount.v, currency_code_to_bytes(as_str(MapGet(obj, currency).v).v, FALSE))

\* obj.get("value") and strnum.as_str()?.
Amount_issued_value(obj, currency, issuer) ==
  IF ~IsSome(MapGet(obj, "value")) THEN None
  ELSE IF ~IsSome(as_str(MapGet(obj, "value").v)) THEN None
  ELSE Amount_issued_currency(obj, currency, issuer, IssuedAmount_to_bytes(as_str(MapGet(obj, "value").v).v))

\* Amount::to_bytes on an object: the first three of the sorted keys are
\* to be currency, issuer and value.
Amount_issued(obj, keys) ==
  IF Len(keys) < 3 THEN None
  ELSE IF keys[1] = "currency" /\ keys[2] = "issuer" /\ keys[3] = "value"
    THEN Amount_issued_value(obj, keys[1], keys[2])
  ELSE None

\* Amount::to_bytes: a text is an amount of XRP, an object an amount of an
\* issued currency.
Amount_to_bytes(data) ==
  IF IsSome(as_str(data)) THEN Amount_native(i64_from_str(as_str(data).v))
  ELSE IF IsSome(as_object(data))
    THEN Amount_issued(as_object(data).v, Amount_sorted_keys(Keys(as_object(data).v)))
  ELSE None

\* A step's type byte and data, or nothing where the data has none (the
\* `if let` without else); decode_account_id's panic unwinds.
PathStep_put(type_byte, data) ==
  IF data.tag = "Panic" THEN Panic
  ELSE IF data.tag = "Ok" \/ data.tag = "Some"
    THEN Some(<<type_byte>> \o data.v)
  ELSE Some(<<>>)

\* One step of a path: its bytes, None where a `?` leaves path_as_bytes,
\* Panic where decode_account_id panics.
PathStep(step) ==
  LET obj == as_object(step)
  IN  IF ~IsSome(obj) THEN Some(<<>>)
      ELSE IF IsSome(MapGet(obj.v, "account"))
        THEN LET account == as_str(MapGet(obj.v, "account").v)
             IN  IF ~IsSome(account) THEN None
                 ELSE PathStep_put(1, decode_account_id(account.v))
      ELSE IF IsSome(MapGet(obj.v, "currency"))
        THEN LET currency == as_str(MapGet(obj.v, "currency").v)
             IN  IF ~IsSome(currency) THEN None
                 ELSE PathStep_put(16,
                                   currency_code_to_bytes(currency.v, TRUE))
      ELSE IF IsSome(MapGet(obj.v, "issuser"))
        THEN LET issuer == as_str(MapGet(obj.v, "issuser").v)
             IN  IF ~IsSome(issuer) THEN None
                 ELSE PathStep_put(32, decode_account_id(issuer.v))
      ELSE Some(<<>>)

RECURSIVE PathSteps_extend(_, _, _, _)
RECURSIVE PathSteps(_, _, _)
\* The loop of path_as_bytes from step i on.
PathSteps(path, i, path_contents) ==
  IF i > Len(path) THEN Some(path_contents)
  ELSE PathSteps_extend(path, i, path_contents, PathStep(path[i]))

\* The loop after step i gave step_data: a `?` in the step leaves
\* path_as_bytes with None.
PathSteps_extend(path, i, path_contents, step_data) ==
  IF ~IsSome(step_data) THEN step_data
  ELSE PathSteps(path, i + 1, path_contents \o step_data.v)

\* PathSet::path_as_bytes.
path_as_bytes(path) ==
  LET steps == as_array(path)
  IN  IF ~IsSome(steps) THEN None ELSE PathSteps(steps.v, 1, <<>>)

RECURSIVE PathSetPaths_extend(_, _, _, _, _)
RECURSIVE PathSetPaths(_, _, _)
\* The loop of PathSet::to_bytes from path i on: a path without encoding
\* adds nothing, and its separator or end byte follows all the same.
PathSetPaths(pathset, i, buf) ==
  IF i > Len(pathset) THEN Some(buf)
  ELSE PathSetPaths_extend(pathset, i, buf, path_as_bytes(pathset[i]),
                           IF i = Len(pathset) THEN <<0>> ELSE <<255>>)

\* The loop after path i gave path, mark the byte that follows it.
PathSetPaths_extend(pathset, i, buf, path, mark) ==
  IF path.tag = "Panic" THEN Panic
  ELSE IF IsSome(path)
    THEN PathSetPaths(pathset, i + 1, buf \o path.v \o mark)
  ELSE PathSetPaths(pathset, i + 1, buf \o mark)

\* PathSet::to_bytes / pathset_to_bytes.
PathSet_to_bytes(input) ==
  LET pathset == as_array(input)
  IN  IF ~IsSome(pathset) THEN None ELSE PathSetPaths(pathset.v, 1, <<>>)

\* The unsigned integer arms with the bytes in little-endian order.
uint_to_bytes_little_endian(field_val, width) ==
  LET input == as_u64(field_val)
  IN  IF ~IsSome(input) THEN None
      ELSE Some([i \in 1 .. width |-> to_be_bytes(input.v)[9 - i]])

\* The unsigned integer arms with a value the width cannot hold rejected.
uint_to_bytes_checked(field_val, width) ==
  LET input == as_u64(field_val)
  IN  IF ~IsSome(input) THEN None
      ELSE IF \E k \in 1 .. 8 - width : to_be_bytes(input.v)[k] # 0 THEN None
      ELSE Some(SubSeq(to_be_bytes(input.v), 8 - width + 1, 8))

\* The UInt8, UInt16 and UInt32 arms of field_to_bytes: the last `width`
\* bytes of the value's 8 big-endian bytes.
uint_to_bytes(field_val, width) ==
  LET input == as_u64(field_val)
  IN  IF ~IsSome(input) THEN None
      ELSE Some(SubSeq(to_be_bytes(input.v), 8 - width + 1, 8))

\* The TransactionType arm with the code's low byte first.
transaction_type_to_bytes_low_first(self, id_prefix, field_val) ==
  LET field_str == as_str(field_val)
  IN  IF ~IsSome(field_str) THEN None
      ELSE LET type_unit == TableGet(self.definitions.v.TRANSACTION_TYPES, field_str.v)
           IN  IF ~IsSome(type_unit) THEN None
               ELSE IF type_unit.v < 0 \/ type_unit.v > 65535 THEN None
               ELSE Some(id_prefix \o <<type_unit.v % 256, type_unit.v \div 256>>)

\* The TransactionType arm of field_to_bytes: the code of the named
\* transaction type read as a u16 and written big-endian.
transaction_type_to_bytes(self, id_prefix, field_val) ==
  LET field_str == as_str(field_val)
  IN  IF ~IsSome(field_str) THEN None
      ELSE LET type_unit == TableGet(self.definitions.v.TRANSACTION_TYPES,
                                     field_str.v)
           IN  IF ~IsSome(type_unit) THEN None
               ELSE IF type_unit.v < 0 \/ type_unit.v > 65535 THEN None
               ELSE Some(id_prefix \o <<type_unit.v \div 256,
                                        type_unit.v % 256>>)

RECURSIVE field_to_bytes(_, _, _)
RECURSIVE STArray_elements(_, _, _, _)
RECURSIVE STObject_children(_, _, _, _, _)
RECURSIVE STArray_extend(_, _, _, _, _)
RECURSIVE STObject_extend(_, _, _, _, _, _)

\* The loop of STArray::to_bytes from element i on, buf holding what the
\* elements before it gave.  An element that is no object is passed over;
\* so is one whose encoding is None.  An element that is an object without
\* keys makes wrapper_keys[0] panic.
STArray_elements(self, data, i, buf) ==
  IF i > Len(data) THEN Some(buf)
  ELSE LET inner == as_object(data[i])
       IN  IF ~IsSome(inner) THEN STArray_elements(self, data, i + 1, buf)
           ELSE IF Keys(inner.v) = <<>> THEN Panic
           ELSE STArray_extend(self, data, i, buf,
                               field_to_bytes(self, Keys(inner.v)[1],
                                              data[i]))

\* The loop after element i gave fields.
STArray_extend(self, data, i, buf, fields) ==
  IF fields.tag = "Panic" THEN Panic
  ELSE IF IsSome(fields)
    THEN STArray_elements(self, data, i + 1, buf \o fields.v)
  ELSE STArray_elements(self, data, i + 1, buf)

\* STArray::to_bytes, after the loop: the end marker follows the elements.
STArray_end(buf, array_end_marker) ==
  IF ~IsSome(buf) THEN buf
  ELSE IF IsSome(array_end_marker) THEN Some(buf.v \o array_end_marker.v)
  ELSE Some(buf.v)

\* STArray::to_bytes.
STArray_to_bytes(self, input) ==
  IF ~IsSome(as_array(input)) THEN None
  ELSE STArray_end(STArray_elements(self, as_array(input).v, 1, <<>>),
                   get_field_id(self, "ArrayEndMarker"))

\* The loop of STObject::to_bytes with the children that are no signing
\* fields left out.
STObject_children_signing_only(self, inner_obj, child_order, i, buf) ==
  IF i > Len(child_order) THEN Some(buf)
  ELSE LET field_name == child_order[i]
           is_serialized ==
             get_definition_field(self, field_name, "isSerialized")
           is_signing_field ==
             get_definition_field(self, field_name, "isSigningField")
           field_val == MapGet(inner_obj, field_name)
       IN  IF ~IsSome(is_serialized) THEN None
           ELSE IF ~is_serialized.v \/ ~is_signing_field.v
             THEN STObject_children(self, inner_obj, child_order, i + 1, buf)
           ELSE IF ~IsSome(field_val) THEN None
           ELSE STObject_extend(self, inner_obj, child_order, i, buf,
                                field_to_bytes(self, field_name, field_val.v))

\* The loop of STObject::to_bytes from child i of child_order on.
STObject_children(self, inner_obj, child_order, i, buf) ==
  IF i > Len(child_order) THEN Some(buf)
  ELSE LET field_name == child_order[i]
           is_serialized ==
             get_definition_field(self, field_name, "isSerialized")
           field_val == MapGet(inner_obj, field_name)
       IN  IF ~IsSome(is_serialized) THEN None
           ELSE IF ~is_serialized.v
             THEN STObject_children(self, inner_obj, child_order, i + 1, buf)
           ELSE IF ~IsSome(field_val) THEN None
           ELSE STObject_extend(self, inner_obj, child_order, i, buf,
                                field_to_bytes(self, field_name, field_val.v))

\* The loop after child i gave field_bytes.
STObject_extend(self, inner_obj, child_order, i, buf, field_bytes) ==
  IF ~IsSome(field_bytes) THEN field_bytes
  ELSE STObject_children(self, inner_obj, child_order, i + 1,
                         buf \o field_bytes.v)

\* The end of STObject::to_bytes without the end marker.
STObject_end_unmarked(buf, end_mark) ==
  IF ~IsSome(buf) THEN buf
  ELSE IF ~IsSome(end_mark) THEN None
  ELSE Some(buf.v)

\* STObject::to_bytes, after the loop: the end marker follows the children.
STObject_end(buf, end_mark) ==
  IF ~IsSome(buf) THEN buf
  ELSE IF ~IsSome(end_mark) THEN None
  ELSE Some(buf.v \o end_mark.v)

\* STObject::to_bytes: the value is the wrapper object, its first key names
\* the inner object.
STObject_to_bytes(self, input) ==
  LET data == as_object(input)
  IN  IF ~IsSome(data) THEN None
      ELSE LET wrapper_keys == Keys(data.v)
           IN  IF wrapper_keys = <<>> THEN Panic
               ELSE LET inner_obj == as_object(MapGet(data.v, wrapper_keys[1]).v)
                    IN  IF ~IsSome(inner_obj) THEN None
                        ELSE STObject_end(
                               STObject_children(self, inner_obj.v,
                                 ordering_fields(self, Keys(inner_obj.v)),
                                 1, <<>>),
                               get_field_id(self, "ObjectEndMarker"))

\* field_to_bytes, after the value's encoding: the field id before it.
field_to_bytes_put(id_prefix, slice) ==
  IF ~IsSome(slice) THEN slice ELSE Some(id_prefix \o slice.v)

\* field_to_bytes: the field id, then the value as its type encodes it.
field_to_bytes(self, field_name, field_val) ==
  LET field_type == get_definition_field(self, field_name, "type")
      id_prefix == get_field_id(self, field_name)
  IN  IF ~IsSome(field_type) THEN None
      ELSE IF ~IsSome(id_prefix) THEN None
      ELSE IF ~IsSome(self.definitions) THEN None
      ELSE IF field_name = "TransactionType"
        THEN transaction_type_to_bytes(self, id_prefix.v, field_val)
      ELSE field_to_bytes_put(id_prefix.v,
             CASE field_type.v = "AccountID" -> Account_to_bytes(field_val)
               [] field_type.v = "Amount" -> Amount_to_bytes(field_val)
               [] field_type.v = "Blob" -> blob_to_bytes(field_val)
               [] field_type.v = "Hash128" -> hash_to_bytes(field_val, 16)
               [] field_type.v = "Hash160" -> hash_to_bytes(field_val, 20)
               [] field_type.v = "Hash256" -> hash_to_bytes(field_val, 32)
               [] field_type.v = "PathSet" -> PathSet_to_bytes(field_val)
               [] field_type.v = "STArray" -> STArray_to_bytes(self, field_val)
               [] field_type.v = "STObject" ->
                    STObject_to_bytes(self, field_val)
               [] field_type.v = "UInt8" -> uint_to_bytes(field_val, 1)
               [] field_type.v = "UInt16" -> uint_to_bytes(field_val, 2)
               [] field_type.v = "UInt32" -> uint_to_bytes(field_val, 4)
               [] OTHER -> None)

----------------------------------------------------------------------------
(* serialize_tx *)

\* get_field_by_name on the transaction: the value under the key.
get_field_by_name(data, field) == MapGet(data, field)

\* Every serialized field is encoded, in either form.
is_emitted_when_serialized(is_serialized, is_signing_field, for_signing) ==
  is_serialized

\* A field that is no signing field is left out of either form.
is_emitted_when_signing(is_serialized, is_signing_field, for_signing) ==
  is_serialized /\ is_signing_field

\* The signing form takes every field, serialized or not.
is_emitted_all_when_signing(is_serialized, is_signing_field, for_signing) ==
  IF for_signing THEN TRUE ELSE is_serialized

\* The filter of serialize_tx's loop: a field is encoded if it is
\* serialized and, when signing, a signing field.
is_emitted(is_serialized, is_signing_field, for_signing) ==
  IF is_serialized
    THEN IF for_signing /\ ~is_signing_field THEN FALSE ELSE TRUE
  ELSE FALSE

RECURSIVE serialize_tx_push(_, _, _, _, _, _, _)
RECURSIVE serialize_tx_fields(_, _, _, _, _, _)
\* The loop of serialize_tx from position i of field_order on.  The result
\* carries the chunks appended to fields_as_bytes, one per emitted field.
serialize_tx_fields(self, tx, for_signing, field_order, i, chunks) ==
  IF i > Len(field_order) THEN Some(chunks)
  ELSE LET field_name == field_order[i]
           is_serialized ==
             get_definition_field(self, field_name, "isSerialized")
           is_signing_field ==
             get_definition_field(self, field_name, "isSigningField")
           field_val == get_field_by_name(tx, field_name)
       IN  IF ~IsSome(is_serialized) \/ ~IsSome(is_signing_field) THEN None
           ELSE IF ~is_emitted(is_serialized.v, is_signing_field.v,
                               for_signing)
             THEN serialize_tx_fields(self, tx, for_signing, field_order,
                                      i + 1, chunks)
           ELSE IF ~IsSome(field_val) THEN None
           ELSE serialize_tx_push(self, tx, for_signing, field_order, i,
                  chunks, field_to_bytes(self, field_name, field_val.v))

\* The loop after the field at position i gave field_bytes.
serialize_tx_push(self, tx, for_signing, field_order, i, chunks, field_bytes) ==
  IF ~IsSome(field_bytes) THEN field_bytes
  ELSE serialize_tx_fields(self, tx, for_signing, field_order, i + 1,
                           Append(chunks, [name |-> field_order[i],
                                           bytes |-> field_bytes.v]))

\* serialize_tx up to the hex encoding: the chunks of the emitted fields.
\* tx is what serde_json::from_str gave: None for text that is no JSON.
serialize_tx_chunks(tx, for_signing, self) ==
  IF ~IsSome(tx) THEN None
  ELSE LET obj == as_object(tx.v)
       IN  IF ~IsSome(obj) THEN None
           ELSE LET keys == Keys(obj.v)
                    field_order == ordering_fields(self, keys)
                IN  serialize_tx_fields(self, obj.v, for_signing,
                                        field_order, 1, <<>>)

\* The bytes of a sequence of chunks.
ChunkBytes(chunks) == Flatten([i \in 1 .. Len(chunks) |-> chunks[i].bytes])

\* serialize_tx, after the loop: the bytes as upper-case hex.
serialize_tx_hex(chunks) ==
  IF ~IsSome(chunks) THEN chunks
  ELSE Some(to_uppercase(hex_encode(ChunkBytes(chunks.v))))

\* serialize_tx(tx, for_signing, definition_fields): without a catalog it
\* loads one and calls itself.
serialize_tx(tx, for_signing, definition_fields_opt) ==
  serialize_tx_hex(
    serialize_tx_chunks(tx, for_signing,
                        IF IsSome(definition_fields_opt)
                          THEN definition_fields_opt.v
                        ELSE DefinitionFields_new))

----------------------------------------------------------------------------
(* Calls *)

\* The longest list of keys a caller passes: the top-level keys of a
\* transaction, the names given to ordering_fields.
MaxKeys == 3

\* Field names a caller may pass: those of the catalog and two it lacks.
FieldNames == DOMAIN FIELDS \cup {"foo", "bar"}

\* The names ordering_fields is called with.
OrderNames ==
  {"TransactionType", "Flags", "OfferSequence", "hash", "TxnSignature",
   "Memos", "Generic", "foo", "bar"}

RECURSIVE SeqsUpTo(_, _)
\* The sequences over S of length at most n.
SeqsUpTo(S, n) ==
  IF n = 0 THEN {<<>>}
  ELSE LET shorter == SeqsUpTo(S, n - 1)
       IN  shorter \cup {Append(q, x) : q \in shorter, x \in S}

\* A step of a path with one key.
StepOf(key, text) == JObj(<< <<key, JStr(text)>> >>)

\* Paths: of an account and a currency, of steps with several keys, of a
\* failing account, of a value that is no text, and a value that is no
\* array.
PathValues ==
  {JArr(<<StepOf("account", AccountA),
          StepOf("currency", <<"X", "R", "P">>)>>),
   JArr(<<JObj(<< <<"currency", JStr(<<"U", "S", "D">>)>>,
                  <<"issuer", JStr(AccountB)>> >>)>>),
   JArr(<<JObj(<< <<"account", JStr(AccountA)>>,
                  <<"issuer", JStr(AccountB)>>,
                  <<"type", JNum(U64(1))>> >>)>>),
   JArr(<<StepOf("currency", <<"U", "S", "D">>)>>),
   JArr(<<StepOf("issuser", AccountB)>>),
   JArr(<<StepOf("issuer", AccountB)>>),
   JArr(<<StepOf("account", TestAccount)>>),
   JArr(<<StepOf("currency", <<"U", "S">>)>>),
   JArr(<<JObj(<< <<"account", JNum(U64(1))>> >>)>>),
   JArr(<<StepOf("account", <<"r">>)>>),
   JArr(<<JNull>>),
   JArr(<<>>),
   JNull}

\* The values PathSet::to_bytes is given: arrays of up to two of those
\* paths, and a value that is no array.
PathSetInputs == {JArr(ps) : ps \in SeqsUpTo(PathValues, 2)} \cup {JNull}

\* A wrapper of a memo that carries a field that is no signing field.
SignedMemo ==
  JObj(<< <<"Memo", JObj(<< <<"MemoData", JStr(<<"7", "2", "6", "5">>)>>,
                            <<"MemoType", JStr(<<"6", "8">>)>>,
                            <<"TxnSignature", JStr(<<"3", "0", "4", "4">>)>> >>)>> >>)

\* The values field_to_bytes is given for a field, by the field's type.
FieldValues ==
  {JStr(a) : a \in AccountTexts} \cup
  {JArr(ps) : ps \in SeqsUpTo(PathValues, 2)} \cup
  {JNum(U64(n)) : n \in {0, 1, 255, 256, 65535, 65536, 2147483647}} \cup
  {JNum([hi |-> 65535, lo |-> 65535]), JNum([hi |-> 65536, lo |-> 0])} \cup
  {JNum(U64(65791)), JNum([hi |-> 65536, lo |-> 1]),
   JNum([hi |-> 2147483647, lo |-> 65535])} \cup
  {JNeg(U64(1)), JFloat, JNull, SignedMemo, JArr(<<SignedMemo>>),
   JStr(<<"P", "a", "y", "m", "e", "n", "t">>), JStr(<<"7", "3">>),
   JStr(<<"I", "n", "v", "a", "l", "i", "d">>),
   JStr(<<"O", "f", "f", "e", "r", "C", "r", "e", "a", "t", "e">>),
   JStr(<<"5", "9", "7", "3", "4", "9", "0", "8", "3", "2">>),
   JObj(<< <<"currency", JStr(<<"U", "S", "D">>)>>,
           <<"issuer", JStr(AccountA)>>,
           <<"value", JStr(<<"1", "2", ".", "1", "2", "3">>)>> >>)}

\* Texts given as amounts of XRP: from 0 to beyond i64::MAX, the same
\* below zero, with a sign or leading zeros, and texts that are no integer.
NativeTexts ==
  {<<"0">>, <<"1">>, <<"5", "9", "7", "3", "4", "9", "0", "8", "3", "2">>,
   <<"4", "9", "9", "9", "9", "9", "0", "0", "0">>,
   <<"1", "0", "0", "0", "0", "0", "0", "0", "0", "0", "0", "0", "0", "0",
     "0", "0", "0", "0">>,
   <<"1", "0", "0", "0", "0", "0", "0", "0", "0", "0", "0", "0", "0", "0",
     "0", "0", "0", "1">>,
   <<"4", "6", "1", "1", "6", "8", "6", "0", "1", "8", "4", "2", "7", "3",
     "8", "7", "9", "0", "4">>,
   <<"9", "2", "2", "3", "3", "7", "2", "0", "3", "6", "8", "5", "4", "7",
     "7", "5", "8", "0", "7">>,
   <<"9", "2", "2", "3", "3", "7", "2", "0", "3", "6", "8", "5", "4", "7",
     "7", "5", "8", "0", "8">>, <<"+", "5">>, <<"0", "0", "7">>,
   <<"-", "1">>, <<"-", "5", "9", "7", "3", "4", "9", "0", "8", "3", "2">>,
   <<"-", "1", "0", "0", "0", "0", "0", "0", "0", "0", "0", "0", "0", "0",
     "0", "0", "0", "0", "0">>,
   <<"-", "1", "0", "0", "0", "0", "0", "0", "0", "0", "0", "0", "0", "0",
     "0", "0", "0", "0", "1">>,
   <<"-", "9", "2", "2", "3", "3", "7", "2", "0", "3", "6", "8", "5", "4",
     "7", "7", "5", "8", "0", "8">>,
   <<"-", "9", "2", "2", "3", "3", "7", "2", "0", "3", "6", "8", "5", "4",
     "7", "7", "5", "8", "0", "9">>, <<"-", "0">>, <<>>, <<"-">>,
   <<"1", ".", "5">>, <<"a", "b", "c">>, <<"1", "2", " ">>}

\* Texts given as values of an issued currency: forms of zero, values of
\* few digits, of 16 digits, of more digits than a mantissa holds, the
\* smallest and largest Decimal, and texts that are no decimal number.
ValueTexts ==
  {<<"0">>, <<"0", ".", "0">>, <<"-", "0">>, <<"+", "0">>,
   <<"0", ".", "0", "0", "0">>, <<"1">>, <<"-", "1">>,
   <<"1", "2", ".", "1", "2", "3">>, <<"-", "1", "2", ".", "1", "2", "3">>,
   <<"1", ".", "0">>, <<"1", ".", "0", "0">>, <<"0", ".", "1">>,
   <<"1", "0">>, <<"1", "0", "0">>,
   <<"1", "0", "0", "0", "0", "0", "0", "0", "0", "0", "0", "0", "0", "0",
     "0", "0">>,
   <<"9", "9", "9", "9", "9", "9", "9", "9", "9", "9", "9", "9", "9", "9",
     "9", "9">>,
   <<"-", "9", "9", "9", "9", "9", "9", "9", "9", "9", "9", "9", "9", "9",
     "9", "9", "9">>,
   <<"1", "2", "3", "4", "5", "6", "7", "8", "9", "0", "1", "2", "3", "4",
     "5", "6">>,
   <<"1", "0", "0", "0", "0", "0", "0", "0", "0", "0", "0", "0", "0", "0",
     "0", "0", "0">>,
   <<"1", "2", "3", "4", "5", "6", "7", "8", "9", "0", "1", "2", "3", "4",
     "5", "6", "7">>,
   <<"1", "2", "3", "4", "5", "6", "7", "8", "9", "0", ".", "1", "2", "3",
     "4", "5", "6", "7", "8", "9">>,
   <<"0", ".", "0", "0", "0", "0", "0", "0", "0", "0", "0", "0", "0", "0",
     "0", "0", "0", "0", "0", "0", "0", "0", "0", "0", "0", "0", "0", "0",
     "0", "1">>,
   <<"7", "9", "2", "2", "8", "1", "6", "2", "5", "1", "4", "2", "6", "4",
     "3", "3", "7", "5", "9", "3", "5", "4", "3", "9", "5", "0", "3", "3",
     "5">>,
   <<"7", "9", "2", "2", "8", "1", "6", "2", "5", "1", "4", "2", "6", "4",
     "3", "3", "7", "5", "9", "3", "5", "4", "3", "9", "5", "0", "3", "3",
     "6">>, <<>>, <<"-">>, <<"a", "b", "c">>, <<"1", ".", "2", ".", "3">>,
   <<"1", "e", "5">>}

\* Currency codes: one of three characters, XRP, one of two characters and
\* one of 40 hexadecimal digits.
CurrencyTexts ==
  {<<"U", "S", "D">>, <<"X", "R", "P">>, <<"U", "S">>,
   <<"5", "3", "4", "F", "4", "C", "4", "F", "0", "0", "0", "0", "0", "0",
     "0", "0", "0", "0", "0", "0", "0", "0", "0", "0", "0", "0", "0", "0",
     "0", "0", "0", "0", "0", "0", "0", "0", "0", "0", "0", "0">>}

\* The texts currency_code_to_bytes is given: those, codes of other
\* characters of the alphabet, codes of 0, 2 and 4 characters, a character
\* outside the alphabet, and texts of 39, 40 and 41 characters.
CurrencyInputs ==
  CurrencyTexts \cup
  {<<"x", "r", "p">>, <<"X", "R", "p">>, <<"u", "s", "d">>, <<"0", "1", "|">>,
   <<"$", "[", "}">>, <<"U", "S", "-">>, <<"U", " ", "D">>, <<>>, <<"U">>,
   <<"U", "S", "D", "X">>,
   <<"5", "3", "4", "f", "4", "c", "4", "f", "0", "0", "0", "0", "0", "0",
     "0", "0", "0", "0", "0", "0", "0", "0", "0", "0", "0", "0", "0", "0",
     "0", "0", "0", "0", "0", "0", "0", "0", "0", "0", "a", "b">>,
   <<"5", "3", "4", "F", "4", "C", "4", "F", "0", "0", "0", "0", "0", "0",
     "0", "0", "0", "0", "0", "0", "0", "0", "0", "0", "0", "0", "0", "0",
     "0", "0", "0", "0", "0", "0", "0", "0", "0", "0", "0">>,
   <<"5", "3", "4", "F", "4", "C", "4", "F", "0", "0", "0", "0", "0", "0",
     "0", "0", "0", "0", "0", "0", "0", "0", "0", "0", "0", "0", "0", "0",
     "0", "0", "0", "0", "0", "0", "0", "0", "0", "0", "0", "0", "0">>,
   <<"5", "3", "4", "F", "4", "C", "4", "F", "0", "0", "0", "0", "0", "0",
     "0", "0", "0", "0", "0", "0", "0", "0", "0", "0", "0", "0", "0", "0",
     "0", "0", "0", "0", "0", "0", "0", "0", "0", "0", "0", "G">>}

\* Issuers: an account, a text with a character outside the alphabet and a
\* text that decodes to 4 bytes.
IssuerTexts == {AccountA, <<"0">>, <<"r", "r", "r", "r">>}

\* An object of the three keys of an issued amount.
AmountOf(currency, issuer, value) ==
  JObj(<< <<"currency", JStr(currency)>>, <<"issuer", JStr(issuer)>>, <<"value", JStr(value)>> >>)

\* The object o without its entry at position i.
RemoveEntry(o, i) == SubSeq(o, 1, i - 1) \o SubSeq(o, i + 1, Len(o))

\* The object o with the entry of key and val put at position i.
WithEntry(o, i, key, val) ==
  SubSeq(o, 1, i - 1) \o << <<key, val>> >> \o SubSeq(o, i, Len(o))

\* Objects that are not of exactly the three keys, or whose values are no
\* texts: a key less, a key more (before, between and after the three in
\* the order of the keys), two keys more, a number for a text.
AmountShapes ==
  LET o == AmountOf(<<"U", "S", "D">>, AccountA, <<"1", "2", ".", "1", "2", "3">>).o
  IN  {JObj(RemoveEntry(o, i)) : i \in 1 .. 3} \cup
      {JObj(WithEntry(o, 1, "aaa", JNull)), JObj(WithEntry(o, 3, "memo", JNull)),
       JObj(WithEntry(o, 4, "zzz", JNull)),
       JObj(WithEntry(WithEntry(o, 4, "zzz", JNull), 1, "aaa", JNull)),
       JObj(<<>>), JObj(<<o[3], o[1], o[2]>>)} \cup
      {JObj([o EXCEPT ![i][2] = JNum(U64(1))]) : i \in 1 .. 3}

\* The values Amount::to_bytes is given.
AmountInputs ==
  {JStr(t) : t \in NativeTexts} \cup
  {AmountOf(c, i, v) : c \in CurrencyTexts, i \in IssuerTexts, v \in ValueTexts} \cup
  AmountShapes \cup {JNull, JNum(U64(1)), JArr(<<>>)}

\* Values of a transaction.  Inner objects list their keys in ascending
\* order, as get_field_by_name's passage through a BTreeMap leaves them.
MemoOf(data) ==
  JObj(<< <<"Memo", JObj(<< <<"MemoData", JStr(data)>>,
                            <<"MemoType", JStr(<<"6", "8">>)>> >>)>> >>)

TxEntries ==
  { <<"TransactionType", JStr(<<"P", "a", "y", "m", "e", "n", "t">>)>>,
    <<"Flags", JNum(U64(524288))>>,
    <<"OfferSequence", JNum(U64(1752791))>>,
    <<"hash", JStr(<<"7", "3", "7", "3">>)>>,
    <<"TxnSignature", JStr(<<"3", "0", "4", "4">>)>>,
    <<"TxnSignature", JStr(<<"z", "z">>)>>,
    <<"Memos", JArr(<<SignedMemo>>)>>,
    <<"Memos", JArr(<<MemoOf(<<"7", "2", "6", "5">>), MemoOf(<<"z", "z">>),
                      MemoOf(<<"6", "e">>)>>)>>,
    <<"Memos", JArr(<<JObj(<<>>)>>)>>,
    <<"Memo", JObj(<<>>)>>,
    <<"Account", JStr(AccountA)>>,
    <<"Paths", JArr(<<JArr(<<StepOf("account", AccountB)>>),
                      JArr(<<JObj(<< <<"account", JNum(U64(1))>> >>)>>),
                      JArr(<<StepOf("currency", <<"U", "S", "D">>)>>)>>)>>,
    <<"foo", JNum(U64(1))>> }

RECURSIVE TxObjects(_)
\* The objects of at most n entries with distinct keys, in every order of
\* their keys.
TxObjects(n) ==
  IF n = 0 THEN {<<>>}
  ELSE LET shorter == TxObjects(n - 1)
       IN  shorter \cup
           {Append(o, e) : <<o, e>> \in
              {x \in shorter \X TxEntries :
                 \A i \in 1 .. Len(x[1]) : x[1][i][1] # x[2][1]}}

\* The most keys of the inner object of an STObject.
MaxInnerKeys == 3

\* Entries of the inner object of an STObject: fields of several types, one
\* that is not serialized, one that is no signing field, one whose value
\* fails, and a key the catalog lacks.
InnerEntries ==
  { <<"MemoType", JStr(<<"6", "8">>)>>,
    <<"MemoData", JStr(<<"7", "2", "6", "5">>)>>,
    <<"Sequence", JNum(U64(1))>>,
    <<"SignerWeight", JNum(U64(2))>>,
    <<"Account", JStr(AccountA)>>,
    <<"TxnSignature", JStr(<<"3", "0", "4", "4">>)>>,
    <<"hash", JStr(<<"7", "3", "7", "3">>)>>,
    <<"Flags", JNull>>,
    <<"foo", JNum(U64(1))>> }

RECURSIVE InnerObjects(_)
\* The inner objects of at most n of those entries with distinct keys, in
\* every order of their keys.
InnerObjects(n) ==
  IF n = 0 THEN {<<>>}
  ELSE LET shorter == InnerObjects(n - 1)
       IN  shorter \cup
           {Append(o, e) : <<o, e>> \in
              {x \in shorter \X InnerEntries :
                 \A i \in 1 .. Len(x[1]) : x[1][i][1] # x[2][1]}}

\* The values STObject::to_bytes is given: a wrapper key over an inner
\* object, over a value that is no object, and a value that is no object.
STObjectInputs ==
  {JObj(<< <<"Memo", JObj(o)>> >>) : o \in InnerObjects(MaxInnerKeys)} \cup
  {JObj(<< <<"Memo", JNull>> >>), JNull}

\* Elements of an STArray: memos that encode, a memo whose data is no
\* hexadecimal text, a wrapper of an empty inner object, a wrapper under a
\* key the catalog lacks, an object without keys and a value that is no
\* object.
ArrayElements ==
  {MemoOf(<<"7", "2", "6", "5">>), MemoOf(<<"6", "e">>), MemoOf(<<"z", "z">>),
   JObj(<< <<"Memo", JObj(<<>>)>> >>), JObj(<< <<"foo", JObj(<<>>)>> >>),
   JObj(<<>>), JNull}

\* The values STArray::to_bytes is given: arrays of up to three of those
\* elements, and a value that is no array.
STArrayInputs == {JArr(es) : es \in SeqsUpTo(ArrayElements, 3)} \cup {JNull}

\* What from_str makes of the text given to serialize_tx: an object, a
\* value that is no object, or an error.
TxInputs ==
  {Some(JObj(o)) : o \in TxObjects(MaxKeys)} \cup
  {Some(JArr(<<>>)), Some(JNull), None}

\* The values given to a Hash field: hexadecimal text of these decoded
\* lengths in either case, text that is no hexadecimal, and a number.
HashLengths == {0, 1, 15, 16, 17, 20, 32, 255, 256, 272, 276, 288, 528}

HashInputs ==
  {JStr(to_uppercase(hex_encode(Run(n, 7)))) : n \in HashLengths} \cup
  {JStr(hex_encode(Run(n, 160))) : n \in HashLengths} \cup
  {JStr(<<"z", "z">>), JStr(<<"0", "1", "2">>), JNum(U64(16)), JNull}

\* The contents given to vl_encode, by length.
VlContentLengths == {0, 1, 20, 191, 192, 193, 194, 448, 449, 12480, 12481}

\* The lengths of the contents given to vl_encode that are not written
\* out: around the ends of the buckets, and past 32 bits.
VlLengths ==
  {Usize(n) : n \in {0, 192, 193, 12480, 12481, 78016, 78017, 918743,
                     918744, 918745, 918746, 16777216, 2147483647}} \cup
  {[hi |-> h, lo |-> l] : h \in {32768, 65535, 65536, 65537, 131072},
                          l \in {0, 1, 192, 193, 65535}}

Init ==
  /\ definition_fields = DefinitionFields_new
  /\ op = "idle"
  /\ arg = <<>>
  /\ ret = <<>>
  /\ emitted = <<>>

\* serialize_tx(tx, for_signing, Some(&definition_fields)).
SerializeTx ==
  /\ op = "idle"
  /\ \E tx \in TxInputs, for_signing \in BOOLEAN :
       LET chunks ==
             serialize_tx_chunks(tx, for_signing, definition_fields)
       IN  /\ op' = "serialize_tx"
           /\ arg' = [tx |-> tx, for_signing |-> for_signing]
           /\ ret' = serialize_tx(tx, for_signing, Some(definition_fields))
           /\ emitted' = chunks.v
  /\ UNCHANGED definition_fields

\* definition_fields.ordering_fields(fields).
OrderingFields ==
  /\ op = "idle"
  /\ \E fields \in SeqsUpTo(OrderNames, MaxKeys) :
       /\ op' = "ordering_fields"
       /\ arg' = [fields |-> fields]
       /\ ret' = ordering_fields(definition_fields, fields)
  /\ UNCHANGED <<definition_fields, emitted>>

\* get_field_sort_key(field_name).
GetFieldSortKey ==
  /\ op = "idle"
  /\ \E field_name \in FieldNames :
       /\ op' = "get_field_sort_key"
       /\ arg' = [field_name |-> field_name]
       /\ ret' = get_field_sort_key(definition_fields, field_name)
  /\ UNCHANGED <<definition_fields, emitted>>

\* cal_field_id(field_code, type_code).
CalFieldId ==
  /\ op = "idle"
  /\ \E field_code \in Byte, type_code \in Byte :
       /\ op' = "cal_field_id"
       /\ arg' = [field_code |-> field_code, type_code |-> type_code]
       /\ ret' = cal_field_id(field_code, type_code)
  /\ UNCHANGED <<definition_fields, emitted>>

\* definition_fields.get_field_id(field_name).
GetFieldId ==
  /\ op = "idle"
  /\ \E field_name \in FieldNames :
       /\ op' = "get_field_id"
       /\ arg' = [field_name |-> field_name]
       /\ ret' = get_field_id(definition_fields, field_name)
  /\ UNCHANGED <<definition_fields, emitted>>

\* vl_encode(input) on a content that is written out.
VlEncode ==
  /\ op = "idle"
  /\ \E n \in VlContentLengths, b \in {0, 200} :
       /\ op' = "vl_encode"
       /\ arg' = [input |-> Run(n, b), len |-> Usize(n)]
       /\ ret' = vl_encode(Run(n, b))
  /\ UNCHANGED <<definition_fields, emitted>>

\* vl_encode(input) on a content of which the length alone is known: ret
\* is what the call wrote before the content, None if it wrote nothing.
VlEncodeLen ==
  /\ op = "idle"
  /\ \E len \in VlLengths :
       /\ op' = "vl_encode_len"
       /\ arg' = [len |-> len]
       /\ ret' = vl_encode_prefix(len)
  /\ UNCHANGED <<definition_fields, emitted>>

\* Hash { data, len }.to_bytes(), len the 16, 20 or 32 of the field's type.
HashToBytes ==
  /\ op = "idle"
  /\ \E input \in HashInputs, len \in {16, 20, 32} :
       /\ op' = "hash_to_bytes"
       /\ arg' = [input |-> input, len |-> len]
       /\ ret' = hash_to_bytes(input, len)
  /\ UNCHANGED <<definition_fields, emitted>>

\* decode_account_id(account_id).
DecodeAccountId ==
  /\ op = "idle"
  /\ \E account_id \in AccountTexts :
       /\ op' = "decode_account_id"
       /\ arg' = [account_id |-> account_id]
       /\ ret' = decode_account_id(account_id)
  /\ UNCHANGED <<definition_fields, emitted>>

\* definition_fields.field_to_bytes(field_name, field_val).
FieldToBytes ==
  /\ op = "idle"
  /\ \E field_name \in FieldNames, field_val \in FieldValues :
       /\ op' = "field_to_bytes"
       /\ arg' = [field_name |-> field_name, field_val |-> field_val]
       /\ ret' = field_to_bytes(definition_fields, field_name, field_val)
  /\ UNCHANGED <<definition_fields, emitted>>

\* Amount { data }.to_bytes().
AmountToBytes ==
  /\ op = "idle"
  /\ \E data \in AmountInputs :
       /\ op' = "amount_to_bytes"
       /\ arg' = [data |-> data]
       /\ ret' = Amount_to_bytes(data)
  /\ UNCHANGED <<definition_fields, emitted>>

\* PathSet { data }.to_bytes().
PathSetToBytes ==
  /\ op = "idle"
  /\ \E data \in PathSetInputs :
       /\ op' = "pathset_to_bytes"
       /\ arg' = [data |-> data]
       /\ ret' = PathSet_to_bytes(data)
  /\ UNCHANGED <<definition_fields, emitted>>

\* STObject { data, definition_fields }.to_bytes().
STObjectToBytes ==
  /\ op = "idle"
  /\ \E data \in STObjectInputs :
       /\ op' = "stobject_to_bytes"
       /\ arg' = [data |-> data]
       /\ ret' = STObject_to_bytes(definition_fields, data)
  /\ UNCHANGED <<definition_fields, emitted>>

\* STArray { data, definition_fields }.to_bytes().
STArrayToBytes ==
  /\ op = "idle"
  /\ \E data \in STArrayInputs :
       /\ op' = "starray_to_bytes"
       /\ arg' = [data |-> data]
       /\ ret' = STArray_to_bytes(definition_fields, data)
  /\ UNCHANGED <<definition_fields, emitted>>

\* currency_code_to_bytes(input, xrp_ok).
CurrencyCodeToBytes ==
  /\ op = "idle"
  /\ \E input \in CurrencyInputs, xrp_ok \in BOOLEAN :
       /\ op' = "currency_code_to_bytes"
       /\ arg' = [input |-> input, xrp_ok |-> xrp_ok]
       /\ ret' = currency_code_to_bytes(input, xrp_ok)
  /\ UNCHANGED <<definition_fields, emitted>>

\* IssuedAmount { strnum }.to_bytes().
IssuedAmountToBytes ==
  /\ op = "idle"
  /\ \E strnum \in ValueTexts :
       /\ op' = "issued_amount_to_bytes"
       /\ arg' = [strnum |-> strnum]
       /\ ret' = IssuedAmount_to_bytes(strnum)
  /\ UNCHANGED <<definition_fields, emitted>>

\* The call returns: the caller holds the catalog alone and may call again.
Return ==
  /\ op # "idle"
  /\ op' = "idle"
  /\ arg' = <<>>
  /\ ret' = <<>>
  /\ emitted' = <<>>
  /\ UNCHANGED definition_fields

Next ==
  \/ SerializeTx
  \/ OrderingFields
  \/ CalFieldId
  \/ GetFieldId
  \/ VlEncode
  \/ VlEncodeLen
  \/ HashToBytes
  \/ DecodeAccountId
  \/ FieldToBytes
  \/ AmountToBytes
  \/ IssuedAmountToBytes
  \/ CurrencyCodeToBytes
  \/ PathSetToBytes
  \/ STObjectToBytes
  \/ STArrayToBytes
  \/ GetFieldSortKey
  \/ Return

Spec == Init /\ [][Next]_vars

----------------------------------------------------------------------------
(* Properties *)

\* The sort key of a field as the catalog states it: (type code, nth), and
\* (-1, -1) for a name the catalog lacks.
CatalogSortKey(name) ==
  IF name \in DOMAIN FIELDS /\ FIELDS[name].type \in DOMAIN TYPES
    THEN <<TYPES[FIELDS[name].type], FIELDS[name].nth>>
  ELSE <<-1, -1>>

\* Lexicographic order of sort keys.
KeyLess(a, b) == a[1] < b[1] \/ (a[1] = b[1] /\ a[2] < b[2])

\* The number of times x occurs in the sequence s.
Occurrences(s, x) == Cardinality({i \in 1 .. Len(s) : s[i] = x})

\* The names of the chunks serialize_tx appended.
Names(chunks) == [i \in 1 .. Len(chunks) |-> chunks[i].name]

\* The call in the state is serialize_tx on a JSON object.
OnObject == op = "serialize_tx" /\ IsSome(arg.tx) /\ arg.tx.v.t = "obj"

\* C1: the output of a successful serialize_tx is the concatenation of the
\* emitted fields' encodings in strictly ascending order of sort key,
\* whatever the order of the keys in the input; ordering_fields returns a
\* permutation of its input in non-descending order of sort key.
C1_CanonicalOrder ==
  /\ op = "serialize_tx" /\ IsSome(ret) =>
       /\ \A i, j \in 1 .. Len(emitted) :
            i < j => KeyLess(CatalogSortKey(emitted[i].name),
                             CatalogSortKey(emitted[j].name))
       /\ ret.v = HexOf(ChunkBytes(emitted))
  /\ op = "ordering_fields" =>
       /\ Len(ret) = Len(arg.fields)
       /\ \A i \in 1 .. Len(ret) :
            Occurrences(ret, ret[i]) = Occurrences(arg.fields, ret[i])
       /\ \A i, j \in 1 .. Len(ret) :
            i < j => ~KeyLess(CatalogSortKey(ret[j]), CatalogSortKey(ret[i]))

\* C1: three fields given in descending order of sort key come out in
\* ascending order.
C1_Witness ==
  /\ OnObject
  /\ IsSome(ret)
  /\ Len(emitted) = 3
  /\ Len(arg.tx.v.o) = 3
  /\ \A i \in 1 .. 2 :
       KeyLess(CatalogSortKey(arg.tx.v.o[i + 1][1]),
               CatalogSortKey(arg.tx.v.o[i][1]))

\* The object o with the entries at positions i and i + 1 exchanged.
SwapAt(o, i) ==
  [k \in 1 .. Len(o) |->
     IF k = i THEN o[i + 1] ELSE IF k = i + 1 THEN o[i] ELSE o[k]]

\* C2: serialize_tx is a function of the transaction's key/value content,
\* for_signing and the catalog: the result is the same for every order of
\* the keys and with the catalog loaded by the call itself, and no call
\* changes the catalog.
C2_Deterministic ==
  /\ definition_fields = DefinitionFields_new
  /\ op = "serialize_tx" =>
       ret = serialize_tx(arg.tx, arg.for_signing, None)
  /\ OnObject =>
       \A i \in 1 .. Len(arg.tx.v.o) - 1 :
         ret = serialize_tx(Some(JObj(SwapAt(arg.tx.v.o, i))),
                            arg.for_signing, Some(definition_fields))

\* C2: a successful call on two fields of one type given with the greater
\* nth first.
C2_Witness ==
  /\ OnObject
  /\ IsSome(ret)
  /\ \E i \in 1 .. Len(arg.tx.v.o) - 1 :
       LET a == CatalogSortKey(arg.tx.v.o[i][1])
           b == CatalogSortKey(arg.tx.v.o[i + 1][1])
       IN  a[1] = b[1] /\ a[2] > b[2]

\* The filter as the catalog states it.
CatalogEmits(name, for_signing) ==
  /\ name \in DOMAIN FIELDS
  /\ FIELDS[name].isSerialized
  /\ for_signing => FIELDS[name].isSigningField

\* C3: in a successful serialize_tx a key of the transaction is emitted
\* exactly if its field is serialized and, when signing, a signing field;
\* the output holds the encodings of the emitted keys and nothing else.
C3_EmissionFilter ==
  OnObject /\ IsSome(ret) =>
    LET o == arg.tx.v.o
    IN  /\ \A i \in 1 .. Len(o) :
             Occurrences(Names(emitted), o[i][1]) =
               IF CatalogEmits(o[i][1], arg.for_signing) THEN 1 ELSE 0
        /\ \A j \in 1 .. Len(emitted) :
             /\ Occurrences(Keys(o), emitted[j].name) = 1
             /\ Some(emitted[j].bytes) =
                  field_to_bytes(definition_fields, emitted[j].name,
                                 MapGet(o, emitted[j].name).v)
        /\ Len(ret.v) = 2 * Len(ChunkBytes(emitted))

\* C3: a successful signing call on a transaction with a field that is not
\* serialized, one that is no signing field and one that is emitted.
C3_Witness ==
  /\ OnObject
  /\ IsSome(ret)
  /\ arg.for_signing
  /\ Len(emitted) = 1
  /\ \E i, j \in 1 .. Len(arg.tx.v.o) :
       /\ ~FIELDS[arg.tx.v.o[i][1]].isSerialized
       /\ FIELDS[arg.tx.v.o[j][1]].isSerialized
       /\ ~FIELDS[arg.tx.v.o[j][1]].isSigningField

\* C4: where both forms of a transaction serialize, the fields of the
\* signing form are those of the full form that are signing fields, in the
\* same order and with the same bytes; a serialized field that is no
\* signing field is in the full form alone.
C4_SigningSubsequence ==
  OnObject =>
    LET self == definition_fields
        signing == serialize_tx_chunks(arg.tx, TRUE, self)
        full == serialize_tx_chunks(arg.tx, FALSE, self)
        IsSigning(c) == FIELDS[c.name].isSigningField
        o == arg.tx.v.o
    IN  IsSome(signing) /\ IsSome(full) =>
          /\ emitted = IF arg.for_signing THEN signing.v ELSE full.v
          /\ signing.v = SelectSeq(full.v, IsSigning)
          /\ \A i \in 1 .. Len(o) :
               FIELDS[o[i][1]].isSerialized =>
                 /\ Occurrences(Names(full.v), o[i][1]) = 1
                 /\ Occurrences(Names(signing.v), o[i][1]) =
                      IF FIELDS[o[i][1]].isSigningField THEN 1 ELSE 0

\* C4: a transaction whose signing form holds a field and whose full form
\* holds one more.
C4_Witness ==
  /\ OnObject
  /\ arg.for_signing
  /\ IsSome(ret)
  /\ Len(emitted) >= 1
  /\ LET full == serialize_tx_chunks(arg.tx, FALSE, definition_fields)
     IN  IsSome(full) /\ Len(full.v) > Len(emitted)

\* The field id of the codes f and t, by the table of the four cases.
FieldIdTable(f, t) ==
  IF t < 16 /\ f < 16 THEN <<t * 16 + f>>
  ELSE IF t >= 16 /\ f < 16 THEN <<f, t>>
  ELSE IF t < 16 /\ f >= 16 THEN <<t * 16, f>>
  ELSE <<0, t, f>>

\* C8: for field and type codes in 0..255 the field id is one byte when
\* both are below 16, three bytes when neither is, two otherwise, with the
\* bytes of the table; get_field_id gives the id of the field's codes.
C8_FieldId ==
  /\ op = "cal_field_id" =>
       LET f == arg.field_code
           t == arg.type_code
       IN  /\ ret = FieldIdTable(f, t)
           /\ \A i \in 1 .. Len(ret) : ret[i] \in Byte
           /\ Len(ret) = IF f < 16 /\ t < 16 THEN 1
                         ELSE IF f >= 16 /\ t >= 16 THEN 3 ELSE 2
  /\ op = "get_field_id" =>
       IF arg.field_name \in DOMAIN FIELDS
         THEN LET f == FIELDS[arg.field_name].nth
                  t == TYPES[FIELDS[arg.field_name].type]
              IN  /\ IsSome(ret)
                  /\ f \in Byte /\ t \in Byte => ret.v = FieldIdTable(f, t)
       ELSE ret = None

\* C8: get_field_id on a field whose codes are both 16 or more.
C8_Witness ==
  /\ op = "get_field_id"
  /\ IsSome(ret)
  /\ Len(ret.v) = 3
  /\ ret.v[1] = 0

\* The object o without its entry at position i.
RemoveAt(o, i) == SubSeq(o, 1, i - 1) \o SubSeq(o, i + 1, Len(o))

\* C5: a top-level key the catalog has no field for is skipped: the result
\* of serialize_tx is its result for the transaction without that key.
C5_UnknownKeySkipped ==
  OnObject =>
    \A i \in 1 .. Len(arg.tx.v.o) :
      arg.tx.v.o[i][1] \notin DOMAIN FIELDS =>
        ret = serialize_tx(Some(JObj(RemoveAt(arg.tx.v.o, i))),
                           arg.for_signing, Some(definition_fields))

\* The element el of an STArray wraps a field whose encoding fails.
ElementFails(self, el) ==
  /\ el.t = "obj"
  /\ Len(el.o) > 0
  /\ ~IsSome(field_to_bytes(self, el.o[1][1], el))

\* The value of the field `name` fails to encode, itself or in one of the
\* elements of an STArray.
EncodingFails(self, name, val) ==
  \/ ~IsSome(field_to_bytes(self, name, val))
  \/ /\ FIELDS[name].type = "STArray"
     /\ val.t = "arr"
     /\ \E k \in 1 .. Len(val.a) : ElementFails(self, val.a[k])

\* C6: if the encoding of a field that passes the emission filter fails,
\* at the top level or in an element of an array, serialize_tx returns no
\* hex string.
C6_FirstErrorAborts ==
  OnObject =>
    \A i \in 1 .. Len(arg.tx.v.o) :
      LET name == arg.tx.v.o[i][1]
          val == arg.tx.v.o[i][2]
      IN  /\ CatalogEmits(name, arg.for_signing)
          /\ EncodingFails(definition_fields, name, val)
          => ~IsSome(ret)

\* C7: serialize_tx returns a hex string or the absent value on every
\* input; it never panics.
C7_Total ==
  op = "serialize_tx" => ret.tag \in {"Some", "None"}

\* The length prefix of a content of L <= 918744 bytes, by buckets.
VlPrefixTable(L) ==
  IF L <= 192 THEN <<L>>
  ELSE IF L <= 12480
    THEN <<193 + ((L - 193) \div 256), (L - 193) % 256>>
  ELSE <<241 + ((L - 12481) \div 65536), ((L - 12481) \div 256) % 256,
         (L - 12481) % 256>>

\* The length len is more than 918744 = 14 * 2^16 + 1240.
Exceeds918744(len) == len.hi > 14 \/ (len.hi = 14 /\ len.lo > 1240)

\* C9: vl_encode returns the prefix of the length's bucket followed by the
\* content unchanged, and the absent value for every length above 918744.
C9_VlEncode ==
  /\ op = "vl_encode" =>
       ret = IF Exceeds918744(arg.len) THEN None
             ELSE Some(VlPrefixTable(Len(arg.input)) \o arg.input)
  /\ op = "vl_encode_len" =>
       ret = IF Exceeds918744(arg.len) THEN None
             ELSE Some(VlPrefixTable(arg.len.hi * 65536 + arg.len.lo))

\* C10: a Hash field is encoded exactly if its value is hexadecimal text
\* of exactly len bytes, and then as those bytes; every other value gives
\* the absent value.
C10_HashLength ==
  op = "hash_to_bytes" =>
    LET decoded == IF arg.input.t = "str" THEN hex_decode(arg.input.s)
                   ELSE None
    IN  ret = IF IsSome(decoded) /\ Len(decoded.v) = arg.len
                THEN Some(decoded.v)
              ELSE None

\* The width in bytes of the unsigned integer types.
UIntWidth == [UInt8 |-> 1, UInt16 |-> 2, UInt32 |-> 4]

\* The number a sequence of at most 4 bytes denotes when its first byte is
\* the most significant, as a u64.
BigEndianNumber(b) ==
  LET at(k) == IF k <= Len(b) THEN b[Len(b) + 1 - k] ELSE 0
  IN  [hi |-> at(4) * 256 + at(3), lo |-> at(2) * 256 + at(1)]

\* The u64 n is below 2^(8 * width), for a width of 1, 2 or 4 bytes.
FitsIn(n, width) ==
  CASE width = 1 -> n.hi = 0 /\ n.lo < 256
    [] width = 2 -> n.hi = 0
    [] width = 4 -> n.hi < 65536

\* field_to_bytes was called on a field of an unsigned integer type.
OnUIntField ==
  /\ op = "field_to_bytes"
  /\ arg.field_name \in DOMAIN FIELDS
  /\ FIELDS[arg.field_name].type \in DOMAIN UIntWidth

\* The result is the field id and then `width` bytes that denote the
\* argument, when that is a non-negative integer the width can hold, and
\* is absent when the argument is no non-negative integer.
UIntEncoded ==
  LET width == UIntWidth[FIELDS[arg.field_name].type]
      val == arg.field_val
      id == FieldIdTable(FIELDS[arg.field_name].nth,
                         TYPES[FIELDS[arg.field_name].type])
  IN  IF val.t = "num" /\ val.kind = "PosInt"
        THEN FitsIn(val.n, width) =>
               /\ IsSome(ret)
               /\ Len(ret.v) = Len(id) + width
               /\ SubSeq(ret.v, 1, Len(id)) = id
               /\ BigEndianNumber(SubSeq(ret.v, Len(id) + 1, Len(ret.v))) = val.n
      ELSE ret = None

\* C11 as amended: for a field of type UInt8 / UInt16 / UInt32 other than
\* TransactionType and a non-negative integer that fits in 1 / 2 / 4 bytes,
\* field_to_bytes returns the field id and then exactly 1 / 2 / 4 bytes
\* holding the integer in big-endian order; a value that is no non-negative
\* integer yields the absent value.
C11_UIntEncoding ==
  OnUIntField /\ arg.field_name # "TransactionType" => UIntEncoded

\* C11: a UInt32 field encoded from the integer 2^31 - 1.
C11_Witness ==
  /\ OnUIntField
  /\ arg.field_name = "Flags"
  /\ arg.field_val = JNum(U64(2147483647))
  /\ ret = Some(<<34, 127, 255, 255, 255>>)

\* C11 as stated: the same for every field of type UInt8 / UInt16 / UInt32,
\* TransactionType among them.
C11_UIntEncodingAnyField ==
  OnUIntField => UIntEncoded

\* C12: for the field TransactionType, whatever the catalog type,
\* field_to_bytes returns the field id and then the 2 bytes, most
\* significant first, of the code TRANSACTION_TYPES gives the value; a value
\* that is no string, or no key of TRANSACTION_TYPES, or whose code is no
\* unsigned 16-bit integer, yields the absent value.
C12_TransactionType ==
  op = "field_to_bytes" /\ arg.field_name = "TransactionType" =>
    LET val == arg.field_val
        id == FieldIdTable(FIELDS.TransactionType.nth, TYPES[FIELDS.TransactionType.type])
    IN  IF val.t = "str" /\ val.s \in DOMAIN TRANSACTION_TYPES
             /\ TRANSACTION_TYPES[val.s] \in 0 .. 65535
          THEN /\ IsSome(ret)
               /\ Len(ret.v) = Len(id) + 2
               /\ SubSeq(ret.v, 1, Len(id)) = id
               /\ ret.v[Len(id) + 1] * 256 + ret.v[Len(id) + 2] = TRANSACTION_TYPES[val.s]
               /\ ret.v[Len(id) + 1] \in Byte /\ ret.v[Len(id) + 2] \in Byte
        ELSE ret = None

\* C12: TransactionType encoded from the name of a type whose code is not 0.
C12_Witness ==
  /\ op = "field_to_bytes"
  /\ arg.field_name = "TransactionType"
  /\ arg.field_val = JStr(<<"O", "f", "f", "e", "r", "C", "r", "e", "a", "t", "e">>)
  /\ ret = Some(<<18, 0, 7>>)

RECURSIVE Rem10(_, _)
\* The remainder by 10 of the number of the first n of the big-endian bytes.
Rem10(bytes, n) ==
  IF n = 0 THEN 0 ELSE (Rem10(bytes, n - 1) * 256 + bytes[n]) % 10

\* The quotient by 10 of the number of the big-endian bytes.
Quot10(bytes) ==
  [i \in 1 .. Len(bytes) |-> (Rem10(bytes, i - 1) * 256 + bytes[i]) \div 10]

RECURSIVE BytesToDec(_)
\* The decimal digits of the number of the big-endian bytes.
BytesToDec(bytes) ==
  IF \A i \in 1 .. Len(bytes) : bytes[i] = 0 THEN <<>>
  ELSE Append(BytesToDec(Quot10(bytes)), Rem10(bytes, Len(bytes)))

\* The text s writes an integer: digits after at most one sign.
IntegerText(s) ==
  LET digits == IF s # <<>> /\ s[1] \in {"+", "-"} THEN Tail(s) ELSE s
  IN  digits # <<>> /\ \A i \in 1 .. Len(digits) : DigitVal(digits[i]) >= 0

\* The magnitude of the integer s writes, in decimal digits, and its sign.
IntegerMagnitude(s) ==
  TrimZeros(DigitsOf(IF s[1] \in {"+", "-"} THEN Tail(s) ELSE s))

IntegerNegative(s) == s[1] = "-" /\ IntegerMagnitude(s) # <<>>

\* Amount::to_bytes was called on a text that writes an integer.
OnNativeAmount ==
  /\ op = "amount_to_bytes"
  /\ arg.data.t = "str"
  /\ IntegerText(arg.data.s)

\* C13: for a text that writes an integer n with 0 <= n <= 10^17,
\* Amount::to_bytes returns exactly 8 bytes, the big-endian bytes of
\* n | 0x4000000000000000: bit 63 is clear, bit 62 is set and the low 62
\* bits are n.
C13_NativeAmount ==
  /\ OnNativeAmount
  /\ ~IntegerNegative(arg.data.s)
  /\ ~DecLess(Pow10(17), IntegerMagnitude(arg.data.s))
  => /\ IsSome(ret)
     /\ Len(ret.v) = 8
     /\ \A i \in 1 .. 8 : ret.v[i] \in Byte
     /\ ret.v[1] \div 128 = 0
     /\ (ret.v[1] \div 64) % 2 = 1
     /\ BytesToDec(<<ret.v[1] % 64>> \o Tail(ret.v)) = IntegerMagnitude(arg.data.s)

\* C13: the amount 10^17, the largest of the range.
C13_Witness ==
  /\ OnNativeAmount
  /\ IntegerMagnitude(arg.data.s) = Pow10(17)
  /\ ~IntegerNegative(arg.data.s)
  /\ ret = Some(<<65, 99, 69, 120, 93, 138, 0, 0>>)

\* C14: for a text that writes an integer below zero, Amount::to_bytes
\* returns the absent value.
C14_NegativeNative ==
  OnNativeAmount /\ IntegerNegative(arg.data.s) => ret = None

\* C15: where Amount::to_bytes succeeds the result is exactly 8 bytes for
\* a text and exactly 48 bytes for an object, and nothing else succeeds; a
\* field of type Amount is these bytes after its field id.
C15_AmountLength ==
  /\ op = "amount_to_bytes" /\ IsSome(ret) =>
       /\ arg.data.t \in {"str", "obj"}
       /\ arg.data.t = "str" => Len(ret.v) = 8
       /\ arg.data.t = "obj" => Len(ret.v) = 48
  /\ op = "field_to_bytes" /\ arg.field_name = "Amount" /\ IsSome(ret) =>
       /\ arg.field_val.t \in {"str", "obj"}
       /\ arg.field_val.t = "str" => Len(ret.v) = 1 + 8
       /\ arg.field_val.t = "obj" => Len(ret.v) = 1 + 48

\* C15: an object with a currency code of 40 hexadecimal digits is encoded.
C15_Witness ==
  /\ op = "amount_to_bytes"
  /\ arg.data.t = "obj"
  /\ Len(arg.data.o) = 3
  /\ arg.data.o[1][2].t = "str"
  /\ Len(arg.data.o[1][2].s) = 40
  /\ IsSome(ret)
  /\ Len(ret.v) = 48

\* The text s writes a decimal number: digits with at most one point among
\* them, after at most one sign.
DecimalText(s) ==
  LET body == IF s # <<>> /\ s[1] \in {"+", "-"} THEN Tail(s) ELSE s
  IN  /\ \E i \in 1 .. Len(body) : DigitVal(body[i]) >= 0
      /\ \A i \in 1 .. Len(body) : DigitVal(body[i]) >= 0 \/ body[i] = "."
      /\ Cardinality({i \in 1 .. Len(body) : body[i] = "."}) <= 1

\* The number a decimal text writes is zero: no digit but 0.
ZeroText(s) ==
  DecimalText(s) /\ \A i \in 1 .. Len(s) : DigitVal(s[i]) <= 0

\* Bit k (63 the highest) of the header of 8 bytes.
HeaderBit(header, k) == (header[8 - (k \div 8)] \div (2 ^ (k % 8))) % 2

\* C16: a value of an issued currency that is zero, in whatever form and
\* sign, is encoded as 80 00 00 00 00 00 00 00: of the 64 bits only bit 63
\* is set.
C16_CanonicalZero ==
  /\ op = "issued_amount_to_bytes" /\ ZeroText(arg.strnum) =>
       /\ ret = Some(<<128, 0, 0, 0, 0, 0, 0, 0>>)
       /\ \A k \in 0 .. 62 : HeaderBit(ret.v, k) = 0
       /\ HeaderBit(ret.v, 63) = 1
  /\ /\ op = "amount_to_bytes" /\ arg.data.t = "obj" /\ IsSome(ret)
     /\ ZeroText(MapGet(arg.data.o, "value").v.s)
     => SubSeq(ret.v, 1, 8) = <<128, 0, 0, 0, 0, 0, 0, 0>>

\* C16: the zero written with a minus sign.
C16_Witness ==
  /\ op = "issued_amount_to_bytes"
  /\ arg.strnum = <<"-", "0">>
  /\ ret = Some(<<128, 0, 0, 0, 0, 0, 0, 0>>)

\* C17: an object whose keys are not exactly currency, issuer and value,
\* one with a key less or with any key more, is rejected with the absent
\* value.
C17_ExactKeys ==
  /\ op = "amount_to_bytes"
  /\ arg.data.t = "obj"
  /\ {arg.data.o[i][1] : i \in 1 .. Len(arg.data.o)} # {"currency", "issuer", "value"}
  => ret = None

\* The decoded bytes B are an address: at least 5 bytes, the first 0x00, 20
\* bytes between the first and the last 4, and the last 4 the first 4 of
\* SHA-256(SHA-256(B without its last 4)).
CheckedAddress(B) ==
  /\ Len(B) >= 5
  /\ B[1] = 0
  /\ Len(B) - 1 - 4 = 20
  /\ SubSeq(B, Len(B) - 3, Len(B)) = SubSeq(sha256_digest(sha256_digest(SubSeq(B, 1, Len(B) - 4))), 1, 4)

\* C18: decode_account_id returns the 20 bytes B[1..21] when the text
\* decodes in base 58 to bytes B that are an address, and a DecodeError,
\* without panic, for every other text, those that decode to fewer than 5
\* bytes among them.
C18_DecodeAccountId ==
  op = "decode_account_id" =>
    LET decoded == base_x_decode(arg.account_id)
    IN  IF decoded.tag = "Ok" /\ CheckedAddress(decoded.v)
          THEN ret = Ok(SubSeq(decoded.v, 2, 21))
        ELSE ret = Err

\* The same for the texts that decode to at least 5 bytes or do not
\* decode.
C18_ExceptShort ==
  /\ op = "decode_account_id"
  /\ base_x_decode(arg.account_id).tag = "Ok" => Len(base_x_decode(arg.account_id).v) >= 5
  => C18_DecodeAccountId

\* The fields of a header of 8 bytes: bits 61..54 as a number and bits
\* 53..0 in decimal digits.
HeaderExponent(header) == (header[1] % 64) * 4 + header[2] \div 64

HeaderMantissa(header) == BytesToDec(<<header[2] % 64>> \o SubSeq(header, 3, 8))

\* The text of a decimal number without its sign.
TextBody(s) == IF s[1] \in {"+", "-"} THEN Tail(s) ELSE s

\* The number a decimal text writes is m * 10^e: m the digits of the text,
\* e the negated count of its decimals.
TextMantissa(s) ==
  TrimZeros(DigitsOf(SelectSeq(TextBody(s), LAMBDA c : c # ".")))

TextExponent(s) ==
  IF \E i \in 1 .. Len(s) : s[i] = "."
    THEN 0 - (Len(TextBody(s)) - PointAt(TextBody(s)))
  ELSE 0

\* IssuedAmount::to_bytes was called on a text that writes a number other
\* than zero.
OnNonZeroValue ==
  /\ op = "issued_amount_to_bytes"
  /\ DecimalText(arg.strnum)
  /\ ~ZeroText(arg.strnum)

\* C19: for a value other than zero IssuedAmount::to_bytes fails or returns
\* 8 bytes with bit 63 set, bit 62 set exactly for a positive value, bits
\* 61..54 a number E + 97 with -96 <= E <= 80, and bits 53..0 a number M
\* with 10^15 <= M <= 10^16 - 1.
C19_HeaderLayout ==
  OnNonZeroValue /\ ret # None =>
    /\ IsSome(ret)
    /\ Len(ret.v) = 8
    /\ \A i \in 1 .. 8 : ret.v[i] \in Byte
    /\ HeaderBit(ret.v, 63) = 1
    /\ HeaderBit(ret.v, 62) = 1 <=> arg.strnum[1] # "-"
    /\ HeaderExponent(ret.v) - 97 \in -96 .. 80
    /\ HeaderExponent(ret.v) \in 1 .. 177
    /\ ~DecLess(HeaderMantissa(ret.v), Pow10(15))
    /\ DecLess(HeaderMantissa(ret.v), Pow10(16))

\* C19: a value below zero is encoded with bit 62 clear.
C19_Witness ==
  /\ OnNonZeroValue
  /\ arg.strnum[1] = "-"
  /\ IsSome(ret)
  /\ HeaderBit(ret.v, 62) = 0
  /\ HeaderExponent(ret.v) = 83

\* M * 10^E = m * 10^e, for M and m in decimal digits.
SameNumber(M, E, m, e) ==
  IF E >= e THEN M \o [i \in 1 .. E - e |-> 0] = m
  ELSE M = m \o [i \in 1 .. e - E |-> 0]

\* The header holds the number of the text, and holds the text's own
\* mantissa and exponent where these are in the canonical range.
ValuePreserved(s, header) ==
  /\ SameNumber(HeaderMantissa(header), HeaderExponent(header) - 97, TextMantissa(s), TextExponent(s))
  /\ Len(TextMantissa(s)) = 16 =>
       /\ HeaderMantissa(header) = TextMantissa(s)
       /\ HeaderExponent(header) - 97 = TextExponent(s)

\* Two decimal texts write the same number other than zero.
SameValue(s, t) ==
  /\ DecimalText(t) /\ ~ZeroText(t)
  /\ (s[1] = "-") = (t[1] = "-")
  /\ SameNumber(TextMantissa(s), TextExponent(s), TextMantissa(t), TextExponent(t))

\* C20: for a value other than zero that is encoded, the mantissa M and the
\* exponent E of the header satisfy M * 10^E = |m| * 10^e for the mantissa m
\* and exponent e of the input; an input in the canonical range keeps its m
\* and e; and texts that write the same number get the same header.
C20_ValuePreserved ==
  OnNonZeroValue /\ IsSome(ret) =>
    /\ ValuePreserved(arg.strnum, ret.v)
    /\ \A t \in ValueTexts : SameValue(arg.strnum, t) => IssuedAmount_to_bytes(t) = ret

\* The same for the values of at most 16 digits after their leading zeros.
C20_UpTo16Digits ==
  OnNonZeroValue /\ Len(TextMantissa(arg.strnum)) <= 16 => C20_ValuePreserved

\* The characters a currency code of three characters may have.
CodeChars == {IsoChars[k] : k \in 1 .. Len(IsoChars)}

\* The ASCII code of a character of CodeChars.
AsciiOf(c) == IsoCodes[CHOOSE k \in 1 .. Len(IsoChars) : IsoChars[k] = c]

\* The characters of hexadecimal text of either case.
HexChars ==
  {HexDigitsLower[k] : k \in 1 .. 16} \cup {HexDigitsUpper[k] : k \in 1 .. 16}

\* C21: currency_code_to_bytes returns 20 bytes or the absent value: for
\* XRP 20 zero bytes when xrp_ok and the absent value otherwise; for
\* another code of 3 characters of the alphabet 12 zero bytes, the 3 ASCII
\* bytes and 5 zero bytes; for 40 hexadecimal digits the 20 bytes they
\* write; for every other text the absent value.
C21_CurrencyCode ==
  op = "currency_code_to_bytes" =>
    LET input == arg.input
        zero == [i \in 1 .. 20 |-> 0]
    IN  /\ IsSome(ret) => Len(ret.v) = 20 /\ \A i \in 1 .. 20 : ret.v[i] \in Byte
        /\ IF input = <<"X", "R", "P">>
             THEN ret = IF arg.xrp_ok THEN Some(zero) ELSE None
           ELSE IF Len(input) = 3 /\ \A i \in 1 .. 3 : input[i] \in CodeChars
             THEN ret = Some([i \in 1 .. 20 |-> IF i \in 13 .. 15 THEN AsciiOf(input[i - 12]) ELSE 0])
           ELSE IF Len(input) = 40 /\ \A i \in 1 .. 40 : input[i] \in HexChars
             THEN IsSome(ret) /\ to_uppercase(hex_encode(ret.v)) = to_uppercase(input)
           ELSE ret = None

\* C21: XRP where it is taken, in the context of a path.
C21_Witness ==
  /\ op = "currency_code_to_bytes"
  /\ arg.input = <<"X", "R", "P">>
  /\ arg.xrp_ok
  /\ ret = Some([i \in 1 .. 20 |-> 0])

\* The keys of a step, in the order of their priority.
StepKeys == <<"account", "currency", "issuer">>

\* The step is an object with at least one of the three keys.
HasStepKey(step) ==
  /\ step.t = "obj"
  /\ \E k \in 1 .. 3 : IsSome(MapGet(step.o, StepKeys[k]))

\* The first key of the step in the order of priority.
FirstStepKey(step) ==
  StepKeys[CHOOSE k \in 1 .. 3 :
             /\ IsSome(MapGet(step.o, StepKeys[k]))
             /\ \A l \in 1 .. k - 1 : ~IsSome(MapGet(step.o, StepKeys[l]))]

\* The 20 bytes of an account text, where it is an address.
AccountField(text) ==
  LET decoded == base_x_decode(text)
  IN  IF decoded.tag = "Ok" /\ CheckedAddress(decoded.v)
        THEN Some(SubSeq(decoded.v, 2, 21))
      ELSE None

\* The 20 bytes of the value val under the step key.
StepField(key, val) ==
  IF val.t # "str" THEN None
  ELSE IF key = "currency" THEN currency_code_to_bytes(val.s, TRUE)
  ELSE AccountField(val.s)

\* The 21 bytes of a step: the tag of its first key and the key's field.
StepBytes(step) ==
  LET key == FirstStepKey(step)
      data == StepField(key, MapGet(step.o, key).v)
      tag == IF key = "account" THEN 1 ELSE IF key = "currency" THEN 16 ELSE 32
  IN  IF IsSome(data) THEN Some(<<tag>> \o data.v) ELSE None

\* Every path of the value is an array of steps with a key.
StepsCarryKeys(data) ==
  /\ data.t = "arr"
  /\ \A i \in 1 .. Len(data.a) :
       /\ data.a[i].t = "arr"
       /\ \A j \in 1 .. Len(data.a[i].a) : HasStepKey(data.a[i].a[j])

\* The steps of a path, 21 bytes each, one after the other.
PathBytes(path) == Flatten([j \in 1 .. Len(path.a) |-> StepBytes(path.a[j]).v])

\* The paths with 0xff after each but the last and 0x00 after the last.
PathSetBytes(data) ==
  Flatten([i \in 1 .. Len(data.a) |->
             PathBytes(data.a[i]) \o
             (IF i = Len(data.a) THEN <<0>> ELSE <<255>>)])

\* C22: in an encoded PathSet every step that has one of the keys account,
\* currency, issuer is 21 bytes, the tag of its first key in that order
\* (0x01, 0x10, 0x20) and the 20 bytes of the key's value; a step whose
\* only such key is issuer is 0x20 and the issuer's id.
C22_StepEncoding ==
  (op = "pathset_to_bytes" /\ StepsCarryKeys(arg.data) /\ IsSome(ret)) =>
    /\ \A i \in 1 .. Len(arg.data.a) :
         \A j \in 1 .. Len(arg.data.a[i].a) :
           IsSome(StepBytes(arg.data.a[i].a[j]))
    /\ ret.v = PathSetBytes(arg.data)

\* The value is an array of paths that each have an encoding.
PathsEncode(data) ==
  /\ data.t = "arr"
  /\ \A i \in 1 .. Len(data.a) : IsSome(path_as_bytes(data.a[i]))

\* The encodings of the paths, each followed by the byte mark gives it.
PathsMarked(data, mark(_)) ==
  Flatten([i \in 1 .. Len(data.a) |->
             path_as_bytes(data.a[i]).v \o <<mark(i)>>])

\* C23: an encoded PathSet of n paths is the paths' encodings in input
\* order, 0xff after each of the first n - 1 and 0x00 after the last; its
\* last byte is 0x00 for every n, the empty array included.
C23_PathSeparators ==
  (op = "pathset_to_bytes" /\ PathsEncode(arg.data) /\ IsSome(ret)) =>
    LET n == Len(arg.data.a)
        mark(i) == IF i = n THEN 0 ELSE 255
    IN  /\ ret.v = PathsMarked(arg.data, mark)
        /\ Len(ret.v) > 0
        /\ ret.v[Len(ret.v)] = 0

\* The same for the arrays of at least one path.
C23_NonEmpty ==
  (op = "pathset_to_bytes" /\ arg.data.t = "arr" /\ Len(arg.data.a) = 0) \/ C23_PathSeparators

\* The call in the state is STObject::to_bytes on a wrapper of an inner
\* object.
OnInnerObject ==
  /\ op = "stobject_to_bytes"
  /\ arg.data.t = "obj"
  /\ arg.data.o[1][2].t = "obj"

\* The entries of the object o whose field the catalog serializes.
SerializedEntries(o) ==
  {i \in 1 .. Len(o) : o[i][1] \in DOMAIN FIELDS /\ FIELDS[o[i][1]].isSerialized}

\* The number of entries among those of I whose sort key is at most that
\* of entry i: the place of entry i in ascending order of sort key.
PlaceOf(o, I, i) ==
  Cardinality({j \in I : ~KeyLess(CatalogSortKey(o[i][1]), CatalogSortKey(o[j][1]))})

\* The entries of I in ascending order of sort key.
Ascending(o, I) ==
  [p \in 1 .. Cardinality(I) |-> o[CHOOSE i \in I : PlaceOf(o, I, i) = p]]

\* The field encodings of the entries es, one after the other.
EntriesEncoded(self, es) ==
  Flatten([p \in 1 .. Len(es) |-> field_to_bytes(self, es[p][1], es[p][2]).v])

\* The orders of the entries of the object o.
OrdersOf(o) ==
  {q \in [1 .. Len(o) -> 1 .. Len(o)] : \A i, j \in 1 .. Len(o) : q[i] = q[j] => i = j}

\* C24: an encoded STObject is the field encodings of the keys of its
\* inner object that the catalog serializes, and of no other, in ascending
\* order of sort key, with the field id of ObjectEndMarker last; it is the
\* same for every order of the inner object's keys.
C24_STObject ==
  OnInnerObject /\ IsSome(ret) =>
    LET inner == arg.data.o[1][2].o
        wrapper == arg.data.o[1][1]
    IN  /\ ret.v = EntriesEncoded(definition_fields, Ascending(inner, SerializedEntries(inner))) \o
                   FieldIdTable(FIELDS["ObjectEndMarker"].nth, TYPES[FIELDS["ObjectEndMarker"].type])
        /\ \A q \in OrdersOf(inner) :
             ret = STObject_to_bytes(definition_fields,
                     JObj(<< <<wrapper, JObj([k \in 1 .. Len(inner) |-> inner[q[k]]])>> >>))

\* C24: an inner object of three keys given in descending order of sort
\* key, one of them not serialized, is encoded.
C24_Witness ==
  /\ OnInnerObject
  /\ IsSome(ret)
  /\ Len(arg.data.o[1][2].o) = 3
  /\ Cardinality(SerializedEntries(arg.data.o[1][2].o)) = 2
  /\ \A i \in 1 .. 2 :
       KeyLess(CatalogSortKey(arg.data.o[1][2].o[i + 1][1]),
               CatalogSortKey(arg.data.o[1][2].o[i][1]))
  /\ Len(ret.v) > 1

\* The field encoding of an element of an STArray under its wrapper key,
\* None for an element that has no wrapper key.
ElementEncoding(self, el) ==
  IF el.t = "obj" /\ Len(el.o) > 0 THEN field_to_bytes(self, el.o[1][1], el)
  ELSE None

\* C25: an encoded STArray is, in input order, the field encoding of each
\* of its elements under the element's wrapper key, with the field id of
\* ArrayEndMarker last; every element has its encoding in it.
C25_STArray ==
  (op = "starray_to_bytes" /\ arg.data.t = "arr" /\ IsSome(ret)) =>
    /\ \A i \in 1 .. Len(arg.data.a) :
         IsSome(ElementEncoding(definition_fields, arg.data.a[i]))
    /\ ret.v =
         Flatten([i \in 1 .. Len(arg.data.a) |->
                    ElementEncoding(definition_fields, arg.data.a[i]).v]) \o
         FieldIdTable(FIELDS["ArrayEndMarker"].nth, TYPES[FIELDS["ArrayEndMarker"].type])

\* The same for the arrays whose elements all have an encoding.
C25_EncodedElements ==
  (/\ op = "starray_to_bytes"
   /\ arg.data.t = "arr"
   /\ \E i \in 1 .. Len(arg.data.a) :
        ~IsSome(ElementEncoding(definition_fields, arg.data.a[i]))) \/ C25_STArray

\* The catalog has the field and gives its type a code that is not
\* negative.
TypedField(name) ==
  /\ name \in DOMAIN FIELDS
  /\ FIELDS[name].type \in DOMAIN TYPES
  /\ TYPES[FIELDS[name].type] >= 0

\* The result of get_field_sort_key is the pair of the catalog, or
\* (-1, -1) for a name the catalog lacks.
SortKeyOfCatalog ==
  op = "get_field_sort_key" => ret = CatalogSortKey(arg.field_name)

\* C26: get_field_sort_key(name) is (TYPES[FIELDS[name].type],
\* FIELDS[name].nth) for a field of the catalog and (-1, -1) otherwise;
\* (-1, -1) is smaller than the sort key of every field of the catalog
\* whose type code is not negative, and ordering_fields places the names
\* the catalog lacks before all of these.
C26_SortKey ==
  /\ SortKeyOfCatalog
  /\ (op = "get_field_sort_key" /\ TypedField(arg.field_name)) =>
       KeyLess(<<-1, -1>>, ret)
  /\ op = "ordering_fields" =>
       \A i, j \in 1 .. Len(ret) :
         ret[i] \notin DOMAIN FIELDS /\ TypedField(ret[j]) => i < j

\* C26: a field and the sentinel Generic given before a name the catalog
\* lacks: the name is placed before the field and behind Generic.
C26_Witness ==
  /\ op = "ordering_fields"
  /\ arg.fields = <<"Flags", "foo", "Generic">>
  /\ ret = <<"Generic", "foo", "Flags">>

\* C26 as stated: (-1, -1) is smaller than the sort key of every field of
\* the catalog, and ordering_fields places the names the catalog lacks
\* before all the names it has.
C26_UnknownFirst ==
  /\ SortKeyOfCatalog
  /\ (op = "get_field_sort_key" /\ arg.field_name \in DOMAIN FIELDS) =>
       KeyLess(<<-1, -1>>, ret)
  /\ op = "ordering_fields" =>
       \A i, j \in 1 .. Len(ret) :
         ret[i] \notin DOMAIN FIELDS /\ ret[j] \in DOMAIN FIELDS => i < j

\* The field id of a field of the catalog.
FieldIdOf(name) == FieldIdTable(FIELDS[name].nth, TYPES[FIELDS[name].type])

\* The body of an STObject given as a wrapper: every child the catalog
\* serializes, signing field or not, and the end marker.
ObjectBody(self, wrapper) ==
  EntriesEncoded(self, Ascending(wrapper.o[1][2].o, SerializedEntries(wrapper.o[1][2].o))) \o
  FieldIdOf("ObjectEndMarker")

\* What an element of an STArray adds: its wrapper's field id and body,
\* nothing where it has no encoding.
ElementBody(self, el) ==
  IF IsSome(ElementEncoding(self, el)) THEN FieldIdOf(el.o[1][1]) \o ObjectBody(self, el)
  ELSE <<>>

\* The encoding of a field of type STObject or STArray with every nested
\* child the catalog serializes.
NestedEncoding(self, name, val) ==
  IF FIELDS[name].type = "STObject" THEN FieldIdOf(name) \o ObjectBody(self, val)
  ELSE FieldIdOf(name) \o Flatten([k \in 1 .. Len(val.a) |-> ElementBody(self, val.a[k])]) \o
       FieldIdOf("ArrayEndMarker")

\* The chunk c is that of a field of type STObject or STArray.
NestedChunk(c) == FIELDS[c.name].type \in {"STObject", "STArray"}

\* C27: the bytes serialize_tx emits for a field of type STObject or
\* STArray hold every nested child the catalog serializes, signing field
\* or not, and are the same in the signing and in the full form; they are
\* the bytes of field_to_bytes, which is given no form.
C27_NestedUnfiltered ==
  /\ OnObject /\ IsSome(ret) =>
       LET other == serialize_tx_chunks(arg.tx, ~arg.for_signing, definition_fields)
       IN  \A k \in 1 .. Len(emitted) :
             NestedChunk(emitted[k]) =>
               /\ emitted[k].bytes =
                    NestedEncoding(definition_fields, emitted[k].name, MapGet(arg.tx.v.o, emitted[k].name).v)
               /\ IsSome(other) =>
                    \A l \in 1 .. Len(other.v) :
                      other.v[l].name = emitted[k].name => other.v[l].bytes = emitted[k].bytes
  /\ (/\ op = "field_to_bytes"
      /\ arg.field_name \in DOMAIN FIELDS
      /\ FIELDS[arg.field_name].type \in {"STObject", "STArray"}
      /\ IsSome(ret)) =>
       ret.v = NestedEncoding(definition_fields, arg.field_name, arg.field_val)

\* C27: the signing form with an array of a memo that carries
\* TxnSignature, whose field id 0x74 is in the bytes emitted.
C27_Witness ==
  /\ OnObject
  /\ arg.for_signing
  /\ IsSome(ret)
  /\ \E k \in 1 .. Len(emitted) :
       /\ emitted[k].name = "Memos"
       /\ MapGet(arg.tx.v.o, "Memos").v = JArr(<<SignedMemo>>)
       /\ \E p \in 1 .. Len(emitted[k].bytes) : emitted[k].bytes[p] = 116

\* The transaction of a signature that is no hexadecimal text.
BadSignatureOnly ==
  Some(JObj(<< <<"TxnSignature", JStr(<<"z", "z">>)>> >>))

\* C28: if serialize_tx(tx, false) returns a hex string, so does
\* serialize_tx(tx, true); not the other way round: with a signature
\* that does not encode the signing form alone returns one.
C28_SigningSucceeds ==
  /\ (op = "serialize_tx" /\ ~arg.for_signing /\ IsSome(ret)) =>
       IsSome(serialize_tx(arg.tx, TRUE, Some(definition_fields)))
  /\ (op = "serialize_tx" /\ arg.tx = BadSignatureOnly) =>
       (IsSome(ret) <=> arg.for_signing)

\* C28: the full form succeeds on a transaction with a field that the
\* signing form leaves out.
C28_Witness ==
  /\ OnObject
  /\ ~arg.for_signing
  /\ IsSome(ret)
  /\ \E k \in 1 .. Len(emitted) : ~FIELDS[emitted[k].name].isSigningField
  /\ IsSome(serialize_tx(arg.tx, TRUE, Some(definition_fields)))

\* The u64 n modulo 2^(8 * width), for a width of 1, 2 or 4 bytes.
ModWidth(n, width) ==
  CASE width = 1 -> [hi |-> 0, lo |-> n.lo % 256]
    [] width = 2 -> [hi |-> 0, lo |-> n.lo]
    [] width = 4 -> [hi |-> n.hi % 65536, lo |-> n.lo]

\* The non-negative integers among the values field_to_bytes is given.
UIntValues == {val \in FieldValues : val.t = "num" /\ val.kind = "PosInt"}

\* C29: the arms of UInt8 / UInt16 / UInt32 reject no non-negative
\* integer: the body is exactly 1 / 2 / 4 bytes that hold the integer
\* modulo 2^8 / 2^16 / 2^32 in big-endian order, and integers congruent
\* modulo that get the same encoding.
C29_Truncation ==
  (/\ OnUIntField
   /\ arg.field_name # "TransactionType"
   /\ arg.field_val \in UIntValues) =>
    LET width == UIntWidth[FIELDS[arg.field_name].type]
        id == FieldIdOf(arg.field_name)
    IN  /\ IsSome(ret)
        /\ Len(ret.v) = Len(id) + width
        /\ SubSeq(ret.v, 1, Len(id)) = id
        /\ \A k \in 1 .. Len(ret.v) : ret.v[k] \in Byte
        /\ BigEndianNumber(SubSeq(ret.v, Len(id) + 1, Len(ret.v))) = ModWidth(arg.field_val.n, width)
        /\ \A val \in UIntValues :
             ModWidth(val.n, width) = ModWidth(arg.field_val.n, width) =>
               field_to_bytes(definition_fields, arg.field_name, val) = ret

\* C29: a UInt32 field given 2^32 + 1 is encoded as 1.
C29_Witness ==
  /\ OnUIntField
  /\ arg.field_name = "Flags"
  /\ arg.field_val = JNum([hi |-> 65536, lo |-> 1])
  /\ ret = Some(<<34, 0, 0, 0, 1>>)

\* The number of bytes of the prefix that begins with the byte b.
PrefixLength(b) == IF b <= 192 THEN 1 ELSE IF b <= 240 THEN 2 ELSE 3

\* The length a prefix stands for.
VlDecode(p) ==
  IF Len(p) = 1 THEN p[1]
  ELSE IF Len(p) = 2 THEN 193 + (p[1] - 193) * 256 + p[2]
  ELSE 12481 + (p[1] - 241) * 65536 + p[2] * 256 + p[3]

\* The greatest length vl_encode has a prefix for.
MaxVlLength == 918744

\* The prefix vl_encode writes for the length L is that of the buckets'
\* arithmetic with no byte cut, its first byte tells how many bytes it
\* has and is not 255, and it stands for L alone.
VlPrefixDecodes(L) ==
  LET p == vl_encode_prefix(Usize(L))
  IN  /\ IsSome(p)
      /\ p.v = VlPrefixTable(L)
      /\ \A k \in 1 .. Len(p.v) : p.v[k] \in 0 .. 255
      /\ Len(p.v) = PrefixLength(p.v[1])
      /\ p.v[1] # 255
      /\ VlDecode(p.v) = L

\* C30: for every length from 0 to 918744 the first byte of the prefix is
\* in 0..192 for a prefix of 1 byte, 193..240 for one of 2 and 241..254
\* for one of 3, every byte is in 0..255 uncut, and the prefix decodes to
\* the length, so that no two lengths have the same prefix.
C30_VlPrefixDecodable ==
  /\ (op = "vl_encode_len" /\ ~Exceeds918744(arg.len)) =>
       /\ ret = vl_encode_prefix(Usize(U32Int(arg.len)))
       /\ VlPrefixDecodes(U32Int(arg.len))
  /\ (op = "vl_encode_len" /\ arg.len = Usize(MaxVlLength)) =>
       \A L \in 0 .. MaxVlLength : VlPrefixDecodes(L)

\* C30: the greatest length, with the prefix fe d4 17.
C30_Witness ==
  /\ op = "vl_encode_len"
  /\ arg.len = Usize(MaxVlLength)
  /\ ret = Some(<<254, 212, 23>>)

====
